---------------------------- MODULE Spec2Model ----------------------------
(***************************************************************************)
(* A model of Tiger Memory's decision store: the embedding generation of   *)
(* src/src/intelligence.ts, the storage layer of src/src/database.ts, the  *)
(* tool handlers of src/unnamed/part_004 (tools/index.ts) and the project  *)
(* registration of src/src/server.ts.                                      *)
(*                                                                         *)
(* Conventions.  A JavaScript string is the sequence of its UTF-16 code    *)
(* units.  A number that the program handles as a fraction (a confidence,  *)
(* an embedding feature) is held in thousandths: 900 stands for 0.9.       *)
(* An optional value is None or Some(x).  A JavaScript array is a         *)
(* sequence, so index i of the program is index i + 1 here.                *)
(***************************************************************************)
EXTENDS Integers, Sequences, FiniteSets, TLC

VARIABLES
    embedCall,   \* the last generateEmbedding call: its text, the provider's answer, its result
    projects,    \* the projects table, in insertion order
    sessions,    \* the sessions table, in insertion order
    decisions,   \* the decisions table, in insertion order
    now,         \* the database server's clock, read by NOW()
    written,     \* history: the Decision records saveDecision stored, in insertion order
    last,        \* the last storage or tool operation and what it returned
    ctx,         \* per server process: the position in ensureProjectContext and its result
    patterns,    \* the decision_patterns table, in insertion order
    calls        \* per tool call in flight: its position in the handler and what it holds

vars == <<embedCall, projects, sessions, decisions, now, written, last, ctx, patterns, calls>>
storeVars == <<projects, sessions, decisions, now, written, last>>

\* An optional value (a parameter that may be undefined, a column that may be
\* NULL): None, or Some(x) holding x.
None == << >>
Some(x) == <<x>>
IsSome(o) == o # None
Val(o) == o[1]

-----------------------------------------------------------------------------
(* Strings of the program, as code units.                                  *)

TechStack == <<116, 101, 99, 104, 95, 115, 116, 97, 99, 107>>             \* "tech_stack"
Architecture == <<97, 114, 99, 104, 105, 116, 101, 99, 116, 117, 114, 101>> \* "architecture"
Pattern == <<112, 97, 116, 116, 101, 114, 110>>                           \* "pattern"
ToolChoice == <<116, 111, 111, 108, 95, 99, 104, 111, 105, 99, 101>>      \* "tool_choice"
validTypes == <<TechStack, Architecture, Pattern, ToolChoice>>

ColonSpace == <<58, 32>>                                                  \* ": "
ReasoningSep == <<10, 10, 82, 101, 97, 115, 111, 110, 105, 110, 103, 58, 32>>  \* "\n\nReasoning: "
SpaceChar == 32
NewlineChar == 10

\* Texts the callers use.
TextUsePg == <<117, 115, 101, 32, 112, 103>>            \* "use pg"
TextJwtAuth == <<106, 119, 116, 32, 97, 117, 116, 104>> \* "jwt auth"
TextSqlFits == <<115, 113, 108, 32, 102, 105, 116, 115>> \* "sql fits"
TextLines == <<97, 32, 98, 10, 99>>                     \* "a b\nc"
TextEmpty == << >>                                      \* ""
TextBogus == <<120>>                                    \* "x"

-----------------------------------------------------------------------------
(* 32-bit integer arithmetic.  A 32-bit value is a pair of 16-bit halves,  *)
(* <<hi, lo>>, standing for hi * 2^16 + lo modulo 2^32; no intermediate    *)
(* result leaves the range of TLC's 32-bit integers.                     *)

Half == 65536
SignHalf == 32768

Min2(a, b) == IF a <= b THEN a ELSE b

\* ((h << k) - h) + c, then |= 0: h * (2^k - 1) + c, wrapped to 32 bits.
HashStep(h, m, c) ==
    LET s == m * h[2] + c
    IN  <<(m * h[1] + (s \div Half)) % Half, s % Half>>

\* The signed value of a 32-bit pattern as <<hiS, lo>> with value hiS * 2^16 + lo.
ToSigned(h) == <<IF h[1] >= SignHalf THEN h[1] - Half ELSE h[1], h[2]>>

\* JavaScript's v % m for m > 0 and v = s[1] * 2^16 + s[2]: the remainder takes
\* the sign of the dividend.
JsRem(s, m) ==
    LET mathMod == ((s[1] % m) * (Half % m) + s[2]) % m
    IN  IF s[1] < 0 /\ mathMod # 0 THEN mathMod - m ELSE mathMod

\* s1 + s2 + i on JavaScript numbers (no wrap), as <<hiS, lo>>.
SignedSum(s1, s2, i) ==
    LET lo == s1[2] + s2[2] + i
    IN  <<s1[1] + s2[1] + (lo \div Half), lo % Half>>

-----------------------------------------------------------------------------
(* ArchitecturalIntelligence: embeddings.                                  *)

EmbeddingSize == 1536
FeatureCount == 20
\* An array element that is not a number (a string, null, a nested value).
NonNumber == 99999
IsNumber(e) == e # NonNumber

Count(text, ch) == Cardinality({i \in 1..Len(text) : text[i] = ch})

RECURSIVE HashLoop(_, _, _, _)
\* The for loop of generateFallbackEmbedding over text[lo..hi], left to right,
\* started from h = <<hash1, hash2>>.  The range is walked in two halves, and
\* the first half is computed (Len forces it) before the second is entered, so
\* that the depth of evaluation grows with the logarithm of the length.
HashLoop(text, lo, hi, h) ==
    IF lo > hi THEN h
    ELSE IF lo = hi
         THEN <<HashStep(h[1], 31, text[lo]), HashStep(h[2], 7, text[lo])>>
         ELSE LET mid == (lo + hi) \div 2
                  firstHalf == HashLoop(text, lo, mid, h)
              IN  IF Len(firstHalf) = 2 THEN HashLoop(text, mid + 1, hi, firstHalf)
                  ELSE firstHalf

\* generateFallbackEmbedding returning its 20 features without the padding.
generateFallbackEmbeddingFeaturesOnly(text) ==
    LET h == HashLoop(text, 1, Len(text), <<<<0, 0>>, <<0, 0>>>>)
        hash1 == ToSigned(h[1])
        hash2 == ToSigned(h[2])
    IN  [i \in 1..FeatureCount |->
            CASE i = 1 -> JsRem(hash1, 1000)
              [] i = 2 -> JsRem(hash2, 1000)
              [] i = 3 -> Min2(Len(text), 1000)
              [] i = 4 -> (Count(text, SpaceChar) + 1) * 10
              [] i = 5 -> (Count(text, NewlineChar) + 1) * 100
              [] OTHER -> JsRem(SignedSum(hash1, hash2, i - 1), 2000) - 1000]

\* generateFallbackEmbedding with a length feature that also counts the
\* decisions stored so far.
generateFallbackEmbeddingCounting(text) ==
    LET h == HashLoop(text, 1, Len(text), <<<<0, 0>>, <<0, 0>>>>)
        hash1 == ToSigned(h[1])
        hash2 == ToSigned(h[2])
        feature(idx) ==
            CASE idx = 0 -> JsRem(hash1, 1000)
              [] idx = 1 -> JsRem(hash2, 1000)
              [] idx = 2 -> Min2(Len(text) + Len(decisions), 1000)
              [] idx = 3 -> (Count(text, SpaceChar) + 1) * 10
              [] idx = 4 -> (Count(text, NewlineChar) + 1) * 100
              [] OTHER -> JsRem(SignedSum(hash1, hash2, idx), 2000) - 1000
    IN  [i \in 1..EmbeddingSize |-> IF i - 1 < 20 THEN feature(i - 1) ELSE 0]

generateFallbackEmbedding(text) ==
    LET h == HashLoop(text, 1, Len(text), <<<<0, 0>>, <<0, 0>>>>)
        hash1 == ToSigned(h[1])
        hash2 == ToSigned(h[2])
        feature(idx) ==
            CASE idx = 0 -> JsRem(hash1, 1000)
              [] idx = 1 -> JsRem(hash2, 1000)
              [] idx = 2 -> Min2(Len(text), 1000)
              [] idx = 3 -> (Count(text, SpaceChar) + 1) * 10
              [] idx = 4 -> (Count(text, NewlineChar) + 1) * 100
              [] OTHER -> JsRem(SignedSum(hash1, hash2, idx), 2000) - 1000
    IN  [i \in 1..EmbeddingSize |-> IF i - 1 < 20 THEN feature(i - 1) ELSE 0]

\* What the race of the provider call and the 15 s timer settles to.
\*   kind "reject": the provider call failed; "timeout": the timer fired first;
\*   "response": a message whose content is a sequence of blocks.  A block is
\*   [type, parses, value]: parses says whether JSON.parse accepts its text and
\*   value is what it returns, [isArray, items].
Block(type, parses, isArray, items) ==
    [type |-> type, parses |-> parses, value |-> [isArray |-> isArray, items |-> items]]
Answer(kind, content) == [kind |-> kind, content |-> content]
TextAnswer(parses, isArray, items) ==
    Answer("response", <<Block("text", parses, isArray, items)>>)

Thrown == [threw |-> TRUE, value |-> << >>]
Returned(v) == [threw |-> FALSE, value |-> v]

\* The try block of generateEmbedding.
ProviderEmbedding(answer) ==
    IF answer.kind # "response" THEN Thrown
    ELSE IF Len(answer.content) = 0 \/ answer.content[1].type # "text" THEN Thrown
    ELSE IF ~answer.content[1].parses THEN Thrown
    ELSE LET embedding == answer.content[1].value
         IN  IF ~embedding.isArray \/ Len(embedding.items) # FeatureCount THEN Thrown
             ELSE Returned([i \in 1..EmbeddingSize |->
                      IF i <= Len(embedding.items) /\ i - 1 < 20
                      THEN embedding.items[i] ELSE 0])

generateEmbedding(text, answer) ==
    LET tried == ProviderEmbedding(answer)
    IN  IF tried.threw THEN generateFallbackEmbedding(text) ELSE tried.value

combinedText(decision, reasoning, type) ==
    type \o ColonSpace \o decision \o ReasoningSep \o reasoning
generateDecisionEmbedding(decision, reasoning, type, answer) ==
    generateEmbedding(combinedText(decision, reasoning, type), answer)
generateQueryEmbedding(query, answer) == generateEmbedding(query, answer)

-----------------------------------------------------------------------------
(* Bounds of the model.                                                    *)

MaxServers == 2
MaxDecisions == 2
MaxTime == 2

-----------------------------------------------------------------------------
(* TigerCloudDB: the tables and the statements the methods send.           *)

Null == "null"
Range(f) == {f[i] : i \in DOMAIN f}
Indexes(table) == 1..Len(table)

\* gen_random_uuid(): rows are never deleted, so the next row number is fresh.
NewId(table) == Len(table) + 1

\* idx_projects_unique_identifier: UNIQUE (COALESCE(repository_id, path_hash)).
UniqueIdentifier(p) == IF p.repository_id # Null THEN p.repository_id ELSE p.path_hash

\* The row INSERT INTO projects (name, path_hash, tech_stack, project_type,
\* created_at) makes: the columns it does not name take their defaults.
ProjectRow(project) ==
    [id |-> NewId(projects), name |-> project.name, path_hash |-> project.path_hash,
     repository_id |-> Null, git_remote_url |-> Null,
     tech_stack |-> project.tech_stack, project_type |-> project.project_type,
     created_at |-> now]

\* createProject: the row returned, or a thrown query error when the unique
\* index rejects the insert.
createProject(project) ==
    LET row == ProjectRow(project)
    IN  IF \E i \in Indexes(projects) : UniqueIdentifier(projects[i]) = UniqueIdentifier(row)
        THEN Thrown
        ELSE Returned(row)

\* getProject: rows[0] || null (None) of SELECT * FROM projects WHERE path_hash = $1.
getProject(pathHash) ==
    LET hits == {i \in Indexes(projects) : projects[i].path_hash = pathHash}
    IN  IF hits = {} THEN None
        ELSE Some(projects[CHOOSE i \in hits : \A j \in hits : i <= j])

\* createSession: the new row, or a thrown query error when project_id names
\* no project (REFERENCES projects(id)).
createSession(projectId) ==
    IF ~\E i \in Indexes(projects) : projects[i].id = projectId THEN Thrown
    ELSE Returned([id |-> NewId(sessions), project_id |-> projectId,
                   started_at |-> now, ended_at |-> Null, decision_count |-> 0])

\* A value of confidence DECIMAL(3,2): rounded to two decimals, half away from zero.
Decimal32(c) == IF c >= 0 THEN ((c + 5) \div 10) * 10 ELSE 0 - (((0 - c) + 5) \div 10) * 10

\* The text '[' + join(',') + ']' is a vector(1536) literal only if every
\* element prints as a number and there are 1536 of them.
VectorCastOk(v) == Len(v) = EmbeddingSize /\ \A i \in 1..Len(v) : IsNumber(v[i])

\* The CHECK constraints of the decisions table, on the value as stored.
DecisionChecksOk(row) ==
    /\ row.type \in Range(validTypes)
    /\ row.confidence >= 0 /\ row.confidence <= 1000

\* saveDecision: RETURNING * of the insert, or a thrown query error.
saveDecision(decision) ==
    LET row == [id |-> NewId(decisions),
                project_id |-> decision.project_id,
                session_id |-> decision.session_id,
                decision |-> decision.decision,
                reasoning |-> decision.reasoning,
                type |-> decision.type,
                alternatives_considered |-> decision.alternatives_considered,
                files_affected |-> decision.files_affected,
                confidence |-> Decimal32(decision.confidence),
                public |-> decision.public,
                vector_embedding |-> decision.vector_embedding,
                created_at |-> now]
    IN  IF /\ \E i \in Indexes(projects) : projects[i].id = decision.project_id
           /\ (IsSome(decision.vector_embedding) => VectorCastOk(Val(decision.vector_embedding)))
           /\ DecisionChecksOk(row)
        THEN Returned(row)
        ELSE Thrown

\* The orders a statement may return the rows `ids` in under ORDER BY key:
\* rows with equal keys come in any order.
Orderings(ids, key) ==
    {s \in [1..Cardinality(ids) -> ids] :
        /\ \A i, j \in DOMAIN s : i # j => s[i] # s[j]
        /\ \A i, j \in DOMAIN s : i < j => key[s[i]] <= key[s[j]]}

\* LIMIT n of the rows listed by s.
Limit(s, n) == [i \in 1..Min2(n, Len(s)) |-> decisions[s[i]]]

\* getProjectDecisions without WHERE project_id = $1.
getProjectDecisionsAnyProject(projectId, limit) ==
    LET ids == Indexes(decisions)
        key == [i \in ids |-> 0 - decisions[i].created_at]
    IN  {Limit(s, limit) : s \in Orderings(ids, key)}

\* getProjectDecisions ordering by created_at ASC.
getProjectDecisionsOldestFirst(projectId, limit) ==
    LET ids == {i \in Indexes(decisions) : decisions[i].project_id = projectId}
        key == [i \in ids |-> decisions[i].created_at]
    IN  {Limit(s, limit) : s \in Orderings(ids, key)}

\* getProjectDecisions: ... WHERE project_id = $1 ORDER BY created_at DESC LIMIT $2.
getProjectDecisions(projectId, limit) ==
    LET ids == {i \in Indexes(decisions) : decisions[i].project_id = projectId}
        key == [i \in ids |-> 0 - decisions[i].created_at]
    IN  {Limit(s, limit) : s \in Orderings(ids, key)}

\* JavaScript's if (s) for an optional string: undefined and "" are falsy.
TruthyText(s) == IsSome(s) /\ Val(s) # TextEmpty

\* getDecisionTimeline without the created_at >= since condition.
getDecisionTimelineIgnoringSince(projectId, since, category) ==
    LET ids == {i \in Indexes(decisions) :
                   /\ decisions[i].project_id = projectId
                   /\ (TruthyText(category) => decisions[i].type = Val(category))}
        key == [i \in ids |-> decisions[i].created_at]
    IN  {Limit(s, Len(s)) : s \in Orderings(ids, key)}

\* getDecisionTimeline: ... WHERE project_id = $1 [AND created_at >= since]
\* [AND type = category] ORDER BY created_at ASC.
getDecisionTimeline(projectId, since, category) ==
    LET ids == {i \in Indexes(decisions) :
                   /\ decisions[i].project_id = projectId
                   /\ (IsSome(since) => decisions[i].created_at >= Val(since))
                   /\ (TruthyText(category) => decisions[i].type = Val(category))}
        key == [i \in ids |-> decisions[i].created_at]
    IN  {Limit(s, Len(s)) : s \in Orderings(ids, key)}

\* Squared Euclidean distance, summed by halves of the index range; a range
\* on which the two vectors agree adds nothing.
RECURSIVE SumSqDiff(_, _, _, _)
SumSqDiff(a, b, lo, hi) ==
    IF lo > hi \/ SubSeq(a, lo, hi) = SubSeq(b, lo, hi) THEN 0
    ELSE IF lo = hi THEN (a[lo] - b[lo]) * (a[lo] - b[lo])
    ELSE LET mid == (lo + hi) \div 2
         IN  SumSqDiff(a, b, lo, mid) + SumSqDiff(a, b, mid + 1, hi)

\* vector_embedding <-> $1::vector orders rows as the squared distance does.
Distance(v, q) == SumSqDiff(v, q, 1, Len(v))

\* The rows listed by s, each with its distance column, cut by LIMIT n.
LimitWithDistance(s, q, n) ==
    [i \in 1..Min2(n, Len(s)) |->
        [row |-> decisions[s[i]],
         distance |-> Distance(Val(decisions[s[i]].vector_embedding), q)]]

\* searchDecisionsByVector whose global branch lacks public = true.
searchDecisionsByVectorGlobalAll(embedding, projectId, limit) ==
    IF ~VectorCastOk(embedding) THEN {Thrown}
    ELSE LET ids == IF IsSome(projectId)
                    THEN {i \in Indexes(decisions) :
                             /\ decisions[i].project_id = Val(projectId)
                             /\ IsSome(decisions[i].vector_embedding)}
                    ELSE {i \in Indexes(decisions) :
                             IsSome(decisions[i].vector_embedding)}
             key == [i \in ids |-> Distance(Val(decisions[i].vector_embedding), embedding)]
         IN  {Returned(LimitWithDistance(s, embedding, limit)) : s \in Orderings(ids, key)}

\* searchDecisionsByVector whose scoped branch lacks project_id = $2.
searchDecisionsByVectorUnscoped(embedding, projectId, limit) ==
    IF ~VectorCastOk(embedding) THEN {Thrown}
    ELSE LET ids == IF IsSome(projectId)
                    THEN {i \in Indexes(decisions) :
                             IsSome(decisions[i].vector_embedding)}
                    ELSE {i \in Indexes(decisions) :
                             /\ decisions[i].public = TRUE
                             /\ IsSome(decisions[i].vector_embedding)}
             key == [i \in ids |-> Distance(Val(decisions[i].vector_embedding), embedding)]
         IN  {Returned(LimitWithDistance(s, embedding, limit)) : s \in Orderings(ids, key)}

\* searchDecisionsByVector: the possible results; the query throws when the
\* text of the embedding is no vector literal.
searchDecisionsByVector(embedding, projectId, limit) ==
    IF ~VectorCastOk(embedding) THEN {Thrown}
    ELSE LET ids == IF IsSome(projectId)
                    THEN {i \in Indexes(decisions) :
                             /\ decisions[i].project_id = Val(projectId)
                             /\ IsSome(decisions[i].vector_embedding)}
                    ELSE {i \in Indexes(decisions) :
                             /\ decisions[i].public = TRUE
                             /\ IsSome(decisions[i].vector_embedding)}
             key == [i \in ids |-> Distance(Val(decisions[i].vector_embedding), embedding)]
         IN  {Returned(LimitWithDistance(s, embedding, limit)) : s \in Orderings(ids, key)}

-----------------------------------------------------------------------------
(* ToolHandler.handleRememberDecision.                                     *)

MsgMissing == "Missing required fields: decision, reasoning, type, confidence, public"
MsgConfidence == "Confidence must be between 0 and 1"
MsgType == "Type must be one of: tech_stack, architecture, pattern, tool_choice"
MsgQuery == "Database query failed"
MsgNone == ""

\* !s for an optional string.
Falsy(s) == ~TruthyText(s)

\* ValidationError with !confidence and !isPublic in place of the tests for undefined.
ValidationErrorFalsy(args) ==
    IF \/ Falsy(args.decision) \/ Falsy(args.reasoning) \/ Falsy(args.type)
       \/ args.confidence \in {None, Some(0)} \/ args.public \in {None, Some(FALSE)}
    THEN MsgMissing
    ELSE IF Val(args.confidence) < 0 \/ Val(args.confidence) > 1000 THEN MsgConfidence
    ELSE IF Val(args.type) \notin Range(validTypes) THEN MsgType
    ELSE MsgNone

\* ValidationError without the range check on confidence.
ValidationErrorNoRange(args) ==
    IF \/ Falsy(args.decision) \/ Falsy(args.reasoning) \/ Falsy(args.type)
       \/ args.confidence = None \/ args.public = None
    THEN MsgMissing
    ELSE IF Val(args.type) \notin Range(validTypes) THEN MsgType
    ELSE MsgNone

\* The three checks before any other work: the message thrown, or MsgNone.
ValidationError(args) ==
    IF \/ Falsy(args.decision) \/ Falsy(args.reasoning) \/ Falsy(args.type)
       \/ args.confidence = None \/ args.public = None
    THEN MsgMissing
    ELSE IF Val(args.confidence) < 0 \/ Val(args.confidence) > 1000 THEN MsgConfidence
    ELSE IF Val(args.type) \notin Range(validTypes) THEN MsgType
    ELSE MsgNone

\* A destructuring default: = [] applies when the property is undefined.
OrEmpty(o) == IF IsSome(o) THEN Val(o) ELSE << >>

\* decisionRecord, the argument of saveDecision.
DecisionRecord(args, projectId, sessionId, embedding) ==
    [project_id |-> projectId,
     session_id |-> sessionId,
     decision |-> Val(args.decision),
     reasoning |-> Val(args.reasoning),
     type |-> Val(args.type),
     alternatives_considered |-> OrEmpty(args.alternatives_considered),
     files_affected |-> OrEmpty(args.files_affected),
     confidence |-> Val(args.confidence),
     public |-> Val(args.public),
     vector_embedding |-> Some(embedding)]

\* An insert that replaces the row its session wrote before.
InsertOrReplaceDecision(row) ==
    IF \E i \in Indexes(decisions) : decisions[i].session_id = row.session_id
    THEN [i \in Indexes(decisions) |->
             IF decisions[i].session_id = row.session_id THEN row ELSE decisions[i]]
    ELSE Append(decisions, row)

\* An insert that is not committed.
InsertDecisionUncommitted(row) == decisions

\* The decisions table after INSERT INTO decisions ... of saveDecision.
InsertDecision(row) == Append(decisions, row)

\* SELECT COUNT(*) FROM decisions WHERE session_id = $1, on the table given.
getSessionDecisionCount(table, sessionId) ==
    Cardinality({i \in Indexes(table) : table[i].session_id = sessionId})

\* UPDATE sessions SET decision_count = $1 WHERE id = $2.
updateSessionDecisionCount(sessionId, count) ==
    [i \in Indexes(sessions) |->
        IF sessions[i].id = sessionId
        THEN [sessions[i] EXCEPT !.decision_count = count]
        ELSE sessions[i]]

\* The handler's result: the success text, or the failure text carrying the
\* thrown message; saved is the row saveDecision returned, if it did.
RememberResult(message, args, sessionId, saved) ==
    [op |-> "remember_decision", ok |-> message = MsgNone, message |-> message,
     args |-> args, sessionId |-> sessionId, saved |-> saved]

\* The clock has moved since this session last wrote: a session's statements
\* are sent one after the other, each a round trip.
ClockMovedFor(sessionId) ==
    \A i \in Indexes(decisions) :
        decisions[i].session_id = sessionId => decisions[i].created_at < now

\* handleRememberDecision(args, projectId, sessionId), the provider answering
\* `answer` to the embedding request.
RememberDecision(args, projectId, sessionId, answer) ==
    /\ Len(decisions) < MaxDecisions
    /\ ClockMovedFor(sessionId)
    /\ UNCHANGED <<embedCall, projects, now, ctx, patterns, calls>>
    /\ LET error == ValidationError(args)
       IN  IF error # MsgNone
           THEN /\ last' = RememberResult(error, args, sessionId, None)
                /\ UNCHANGED <<decisions, sessions, written>>
           ELSE LET embedding == generateDecisionEmbedding(
                                     Val(args.decision), Val(args.reasoning),
                                     Val(args.type), answer)
                    record == DecisionRecord(args, projectId, sessionId, embedding)
                    saved == saveDecision(record)
                IN  IF saved.threw
                    THEN /\ last' = RememberResult(MsgQuery, args, sessionId, None)
                         /\ UNCHANGED <<decisions, sessions, written>>
                    ELSE /\ decisions' = InsertDecision(saved.value)
                         /\ written' = Append(written, record)
                         /\ sessions' = updateSessionDecisionCount(sessionId,
                                getSessionDecisionCount(decisions', sessionId))
                         /\ last' = RememberResult(MsgNone, args, sessionId,
                                                   Some(saved.value))

-----------------------------------------------------------------------------
(* Calls of the read methods of TigerCloudDB.                              *)

GetProjectDecisions(projectId, limit) ==
    /\ \E rows \in getProjectDecisions(projectId, limit) :
           last' = [op |-> "getProjectDecisions", ok |-> TRUE, projectId |-> projectId,
                    limit |-> limit, rows |-> rows]
    /\ UNCHANGED <<embedCall, projects, sessions, decisions, now, written, ctx, patterns, calls>>

GetDecisionTimeline(projectId, since, category) ==
    /\ \E rows \in getDecisionTimeline(projectId, since, category) :
           last' = [op |-> "getDecisionTimeline", ok |-> TRUE, projectId |-> projectId,
                    since |-> since, category |-> category, rows |-> rows]
    /\ UNCHANGED <<embedCall, projects, sessions, decisions, now, written, ctx, patterns, calls>>

SearchDecisionsByVector(embedding, projectId, limit) ==
    /\ \E result \in searchDecisionsByVector(embedding, projectId, limit) :
           last' = [op |-> "searchDecisionsByVector", ok |-> ~result.threw,
                    embedding |-> embedding, projectId |-> projectId,
                    limit |-> limit, rows |-> result.value]
    /\ UNCHANGED <<embedCall, projects, sessions, decisions, now, written, ctx, patterns, calls>>

\* Time passes on the database server.
Tick ==
    /\ now < MaxTime
    /\ now' = now + 1
    /\ UNCHANGED <<embedCall, projects, sessions, decisions, written, last, ctx, patterns, calls>>

-----------------------------------------------------------------------------
(* The embedding provider's possible answers.                              *)

Half1 == [i \in 1..FeatureCount |-> 500]
Ramp == [i \in 1..FeatureCount |-> i * 100 - 1000]
AllStrings == [i \in 1..FeatureCount |-> NonNumber]
OneNull == [i \in 1..FeatureCount |-> IF i = 3 THEN NonNumber ELSE 250]

AnsReject == Answer("reject", << >>)
AnsTimeout == Answer("timeout", << >>)
AnsNoContent == Answer("response", << >>)
AnsToolUse == Answer("response", <<Block("tool_use", FALSE, FALSE, << >>)>>)
AnsNotJson == TextAnswer(FALSE, FALSE, << >>)
AnsObject == TextAnswer(TRUE, FALSE, << >>)
AnsShort == TextAnswer(TRUE, TRUE, SubSeq(Ramp, 1, FeatureCount - 1))
AnsLong == TextAnswer(TRUE, TRUE, Append(Ramp, 0))
AnsEmptyArray == TextAnswer(TRUE, TRUE, << >>)
AnsHalf == TextAnswer(TRUE, TRUE, Half1)
AnsRamp == TextAnswer(TRUE, TRUE, Ramp)
AnsStrings == TextAnswer(TRUE, TRUE, AllStrings)
AnsOneNull == TextAnswer(TRUE, TRUE, OneNull)

ProviderAnswers ==
    {AnsReject, AnsTimeout, AnsNoContent, AnsToolUse, AnsNotJson, AnsObject, AnsShort,
     AnsLong, AnsEmptyArray, AnsHalf, AnsRamp, AnsStrings, AnsOneNull}

\* The answers the provider's contract allows: 20 numbers.
WellFormed(answer) ==
    /\ answer.kind = "response"
    /\ Len(answer.content) > 0
    /\ answer.content[1].type = "text"
    /\ answer.content[1].parses
    /\ answer.content[1].value.isArray
    /\ Len(answer.content[1].value.items) = 20
    /\ \A i \in 1..20 : IsNumber(answer.content[1].value.items[i])

EmbedTexts ==
    {TextEmpty, TextBogus, TextUsePg, TextJwtAuth, TextSqlFits, TextLines,
     combinedText(TextUsePg, TextSqlFits, TechStack),
     combinedText(TextJwtAuth, TextSqlFits, Pattern),
     combinedText(TextLines, TextLines, Architecture)}

\* One call of generateEmbedding.
GenerateEmbedding(text, answer) ==
    /\ embedCall' = [called |-> TRUE, text |-> text, answer |-> answer,
                     result |-> generateEmbedding(text, answer)]
    /\ UNCHANGED <<projects, sessions, decisions, now, written, last, ctx, patterns, calls>>

-----------------------------------------------------------------------------
(* Initial states.                                                         *)

NoCall == [called |-> FALSE, text |-> TextEmpty, answer |-> AnsReject, result |-> << >>]
NoOp == [op |-> "none", ok |-> TRUE]

\* A store no process has touched yet.
EmptyStore ==
    /\ projects = << >>
    /\ sessions = << >>
    /\ decisions = << >>
    /\ written = << >>
    /\ now = 1
    /\ last = NoOp

RegisteredProject(id, name, pathHash) ==
    [id |-> id, name |-> name, path_hash |-> pathHash, repository_id |-> Null,
     git_remote_url |-> Null, tech_stack |-> <<"javascript">>, project_type |-> "backend",
     created_at |-> 0]
RegisteredSession(id, projectId) ==
    [id |-> id, project_id |-> projectId, started_at |-> 0, ended_at |-> Null,
     decision_count |-> 0]

\* The store once three server processes have established their project
\* context: two of them in project 1, one in project 2, no decision yet.
RegisteredStore ==
    /\ projects = <<RegisteredProject(1, "app", "h1"), RegisteredProject(2, "lib", "h2")>>
    /\ sessions = <<RegisteredSession(1, 1), RegisteredSession(2, 1), RegisteredSession(3, 2)>>
    /\ decisions = << >>
    /\ written = << >>
    /\ now = 1
    /\ last = NoOp

-----------------------------------------------------------------------------
(* SpecEmbed: generateEmbedding on its own.                                *)

InitEmbed == embedCall = NoCall /\ EmptyStore /\ ctx = << >> /\ patterns = << >> /\ calls = << >>
NextEmbed == \E text \in EmbedTexts, answer \in ProviderAnswers : GenerateEmbedding(text, answer)
SpecEmbed == InitEmbed /\ [][NextEmbed]_vars

-----------------------------------------------------------------------------
(* Spec: remember_decision, listing and timeline over a registered store.  *)

BaseArgs ==
    [decision |-> Some(TextUsePg), reasoning |-> Some(TextSqlFits), type |-> Some(TechStack),
     alternatives_considered |-> None, files_affected |-> None,
     confidence |-> Some(900), public |-> Some(TRUE)]

ValidArgs ==
    {BaseArgs,
     [BaseArgs EXCEPT !.decision = Some(TextJwtAuth), !.type = Some(Pattern),
                      !.public = Some(FALSE)],
     [BaseArgs EXCEPT !.confidence = Some(855),
                      !.alternatives_considered = Some(<<TextJwtAuth, TextLines>>),
                      !.files_affected = Some(<<TextBogus>>)]}

InvalidArgs ==
    {[BaseArgs EXCEPT !.decision = None],
     [BaseArgs EXCEPT !.reasoning = Some(TextEmpty)],
     [BaseArgs EXCEPT !.type = Some(TextBogus)],
     [BaseArgs EXCEPT !.confidence = None],
     [BaseArgs EXCEPT !.confidence = Some(-1)],
     [BaseArgs EXCEPT !.confidence = Some(1001)],
     [BaseArgs EXCEPT !.public = None],
     [BaseArgs EXCEPT !.confidence = Some(1500), !.type = Some(TextBogus)]}

Limits == {1, 2}
Sinces == {None, Some(2)}
Categories == {None, Some(TextEmpty), Some(Pattern)}

Init == embedCall = NoCall /\ RegisteredStore /\ ctx = << >> /\ patterns = << >> /\ calls = << >>

Next ==
    \/ Tick
    \/ \E args \in ValidArgs \cup InvalidArgs, s \in Indexes(sessions) :
           RememberDecision(args, sessions[s].project_id, sessions[s].id, AnsReject)
    \/ \E p \in Indexes(projects), limit \in Limits :
           GetProjectDecisions(projects[p].id, limit)
    \/ \E p \in Indexes(projects), since \in Sinces, category \in Categories :
           GetDecisionTimeline(projects[p].id, since, category)

Spec == Init /\ [][Next]_vars

-----------------------------------------------------------------------------
(* SpecSearch: remember_decision under every kind of provider answer, and  *)
(* vector search over what was stored.                                     *)

SearchArgs ==
    {BaseArgs,
     [BaseArgs EXCEPT !.decision = Some(TextJwtAuth), !.type = Some(Pattern),
                      !.public = Some(FALSE)]}
SearchAnswers == {AnsReject, AnsHalf, AnsStrings}
QueryEmbeddings ==
    {generateQueryEmbedding(TextUsePg, AnsRamp),
     generateQueryEmbedding(TextUsePg, AnsOneNull)}
ProjectIds == {None} \cup {Some(projects[p].id) : p \in Indexes(projects)}

NextSearch ==
    \/ \E args \in SearchArgs, s \in Indexes(sessions), answer \in SearchAnswers :
           RememberDecision(args, sessions[s].project_id, sessions[s].id, answer)
    \/ \E embedding \in QueryEmbeddings, projectId \in ProjectIds, limit \in Limits :
           SearchDecisionsByVector(embedding, projectId, limit)

SpecSearch == Init /\ [][NextSearch]_vars

-----------------------------------------------------------------------------
(* SpecRegister: server processes establishing their project context.      *)
(* ensureProjectContext awaits three times; each await is a step, and the  *)
(* steps of different processes interleave.                                *)

Servers == 1..MaxServers

\* What ProjectDetector.detectProject finds in a process's working directory.
ProjectInfo(name, pathHash, repositoryId) ==
    [name |-> name, pathHash |-> pathHash, repositoryId |-> repositoryId,
     techStack |-> <<"typescript">>, projectType |-> "backend"]

\* Two clones of one repository, and a directory without a Git remote.
ProjectInfos ==
    {ProjectInfo("memory", "hash-clone-a", "github.com/user/memory"),
     ProjectInfo("memory", "hash-clone-b", "github.com/user/memory"),
     ProjectInfo("notes", "hash-notes", Null)}

NoContext(info) ==
    [pc |-> "idle", projectInfo |-> info, project |-> None,
     currentProjectId |-> None, currentSessionId |-> None]

\* What the CallTool handler throws to the protocol layer: an McpError it
\* caught is thrown on, any other error is wrapped into one.
McpError(code, message) ==
    [op |-> "CallTool", ok |-> FALSE, thrown |-> TRUE, code |-> code, message |-> message]

\* A tool call arrives while no context is set: detectProject, which returns
\* null (a ProjectInfo of nulls) outside a project.
EnsureDetect(p) ==
    /\ ctx[p].pc \in {"idle", "failed"}
    /\ IF ctx[p].projectInfo = ProjectInfo(Null, Null, Null)
       THEN /\ ctx' = [ctx EXCEPT ![p].pc = "failed"]
            /\ last' = McpError("InvalidRequest",
                   "Cannot detect project. Please run tigermemory init in a project directory.")
       ELSE /\ ctx' = [ctx EXCEPT ![p].pc = "getProject"]
            /\ UNCHANGED last
    /\ UNCHANGED <<embedCall, projects, sessions, decisions, now, written, patterns, calls>>

\* let project = await this.database.getProject(projectInfo.pathHash).
EnsureGetProject(p) ==
    /\ ctx[p].pc = "getProject"
    /\ LET project == getProject(ctx[p].projectInfo.pathHash)
       IN  ctx' = [ctx EXCEPT ![p].project = project,
                              ![p].pc = IF project = None THEN "createProject"
                                        ELSE "createSession"]
    /\ UNCHANGED <<embedCall, projects, sessions, decisions, now, written, last, patterns, calls>>

\* if (!project) project = await this.database.createProject({...}); a thrown
\* query error is logged and rethrown.
EnsureCreateProject(p) ==
    /\ ctx[p].pc = "createProject"
    /\ LET info == ctx[p].projectInfo
           created == createProject([name |-> info.name, path_hash |-> info.pathHash,
                                     tech_stack |-> info.techStack,
                                     project_type |-> info.projectType])
       IN  IF created.threw
           THEN /\ ctx' = [ctx EXCEPT ![p].pc = "failed"]
                /\ last' = McpError("InternalError", "Tool execution failed: Database query failed")
                /\ UNCHANGED projects
           ELSE /\ projects' = Append(projects, created.value)
                /\ ctx' = [ctx EXCEPT ![p].project = Some(created.value),
                                       ![p].pc = "createSession"]
                /\ UNCHANGED last
    /\ UNCHANGED <<embedCall, sessions, decisions, now, written, patterns, calls>>

\* const session = await this.database.createSession(project.id), then the
\* two assignments.
EnsureCreateSession(p) ==
    /\ ctx[p].pc = "createSession"
    /\ LET session == createSession(Val(ctx[p].project).id)
       IN  IF session.threw
           THEN /\ ctx' = [ctx EXCEPT ![p].pc = "failed"]
                /\ last' = McpError("InternalError", "Tool execution failed: Database query failed")
                /\ UNCHANGED sessions
           ELSE /\ sessions' = Append(sessions, session.value)
                /\ ctx' = [ctx EXCEPT ![p].currentProjectId = Some(Val(ctx[p].project).id),
                                       ![p].currentSessionId = Some(session.value.id),
                                       ![p].pc = "done"]
                /\ UNCHANGED last
    /\ UNCHANGED <<embedCall, projects, decisions, now, written, patterns, calls>>

InitRegister ==
    /\ embedCall = NoCall
    /\ EmptyStore
    /\ ctx \in [Servers -> {NoContext(info) : info \in ProjectInfos}]
    /\ patterns = << >>
    /\ calls = << >>

NextRegister ==
    \E p \in Servers :
        \/ EnsureDetect(p)
        \/ EnsureGetProject(p)
        \/ EnsureCreateProject(p)
        \/ EnsureCreateSession(p)

SpecRegister == InitRegister /\ [][NextRegister]_vars

-----------------------------------------------------------------------------
(* String operations of the program.  Letter case is changed for the       *)
(* letters A-Z and a-z, which is all the callers' texts here contain.      *)

toLowerCase(s) == [i \in 1..Len(s) |-> IF s[i] \in 65..90 THEN s[i] + 32 ELSE s[i]]
toUpperCase(s) == [i \in 1..Len(s) |-> IF s[i] \in 97..122 THEN s[i] - 32 ELSE s[i]]

\* text.includes(part)
includes(text, part) ==
    \E i \in 0..(Len(text) - Len(part)) : SubSeq(text, i + 1, i + Len(part)) = part

\* `${n}` for an integer n.
RECURSIVE DecimalText(_)
DecimalText(n) ==
    IF n < 0 THEN <<45>> \o DecimalText(0 - n)
    ELSE IF n < 10 THEN <<48 + n>>
    ELSE DecimalText(n \div 10) \o <<48 + (n % 10)>>

\* parts.join(sep) that stops after the first part.
JoinFirstOnly(parts, sep) == IF Len(parts) = 0 THEN << >> ELSE parts[1]

\* parts.join(sep); with sep = "" the concatenation of the parts.
RECURSIVE Join(_, _)
Join(parts, sep) ==
    IF Len(parts) = 0 THEN << >>
    ELSE IF Len(parts) = 1 THEN parts[1]
    ELSE parts[1] \o sep \o Join(Tail(parts), sep)

\* The elements of a set of integers in ascending order.
Ascending(S) ==
    [p \in 1..Cardinality(S) |->
        CHOOSE x \in S : Cardinality({y \in S : y < x}) = p - 1]

-----------------------------------------------------------------------------
(* ArchitecturalIntelligence: patterns and the architectural summary.      *)

commonPatterns ==
    <<
      \* "microservices": "microservice", "service-oriented", "distributed"
      [pattern |-> <<109, 105, 99, 114, 111, 115, 101, 114, 118, 105, 99, 101, 115>>,
       keywords |-> <<<<109, 105, 99, 114, 111, 115, 101, 114, 118, 105, 99, 101>>,
                      <<115, 101, 114, 118, 105, 99, 101, 45, 111, 114, 105, 101, 110, 116, 101, 100>>,
                      <<100, 105, 115, 116, 114, 105, 98, 117, 116, 101, 100>>>>],
      \* "monolithic": "monolith", "single application", "all-in-one"
      [pattern |-> <<109, 111, 110, 111, 108, 105, 116, 104, 105, 99>>,
       keywords |-> <<<<109, 111, 110, 111, 108, 105, 116, 104>>,
                      <<115, 105, 110, 103, 108, 101, 32, 97, 112, 112, 108, 105, 99, 97, 116, 105, 111, 110>>,
                      <<97, 108, 108, 45, 105, 110, 45, 111, 110, 101>>>>],
      \* "serverless": "lambda", "functions", "serverless", "faas"
      [pattern |-> <<115, 101, 114, 118, 101, 114, 108, 101, 115, 115>>,
       keywords |-> <<<<108, 97, 109, 98, 100, 97>>,
                      <<102, 117, 110, 99, 116, 105, 111, 110, 115>>,
                      <<115, 101, 114, 118, 101, 114, 108, 101, 115, 115>>,
                      <<102, 97, 97, 115>>>>],
      \* "event-driven": "event", "message queue", "pub/sub", "kafka"
      [pattern |-> <<101, 118, 101, 110, 116, 45, 100, 114, 105, 118, 101, 110>>,
       keywords |-> <<<<101, 118, 101, 110, 116>>,
                      <<109, 101, 115, 115, 97, 103, 101, 32, 113, 117, 101, 117, 101>>,
                      <<112, 117, 98, 47, 115, 117, 98>>,
                      <<107, 97, 102, 107, 97>>>>],
      \* "restful-api": "rest", "restful", "http api", "web api"
      [pattern |-> <<114, 101, 115, 116, 102, 117, 108, 45, 97, 112, 105>>,
       keywords |-> <<<<114, 101, 115, 116>>,
                      <<114, 101, 115, 116, 102, 117, 108>>,
                      <<104, 116, 116, 112, 32, 97, 112, 105>>,
                      <<119, 101, 98, 32, 97, 112, 105>>>>],
      \* "graphql": "graphql", "graph query"
      [pattern |-> <<103, 114, 97, 112, 104, 113, 108>>,
       keywords |-> <<<<103, 114, 97, 112, 104, 113, 108>>,
                      <<103, 114, 97, 112, 104, 32, 113, 117, 101, 114, 121>>>>],
      \* "sql-database": "postgres", "mysql", "sqlite", "sql"
      [pattern |-> <<115, 113, 108, 45, 100, 97, 116, 97, 98, 97, 115, 101>>,
       keywords |-> <<<<112, 111, 115, 116, 103, 114, 101, 115>>,
                      <<109, 121, 115, 113, 108>>,
                      <<115, 113, 108, 105, 116, 101>>,
                      <<115, 113, 108>>>>],
      \* "nosql-database": "mongodb", "redis", "dynamodb", "nosql"
      [pattern |-> <<110, 111, 115, 113, 108, 45, 100, 97, 116, 97, 98, 97, 115, 101>>,
       keywords |-> <<<<109, 111, 110, 103, 111, 100, 98>>,
                      <<114, 101, 100, 105, 115>>,
                      <<100, 121, 110, 97, 109, 111, 100, 98>>,
                      <<110, 111, 115, 113, 108>>>>],
      \* "caching": "cache", "redis", "memcached", "caching layer"
      [pattern |-> <<99, 97, 99, 104, 105, 110, 103>>,
       keywords |-> <<<<99, 97, 99, 104, 101>>,
                      <<114, 101, 100, 105, 115>>,
                      <<109, 101, 109, 99, 97, 99, 104, 101, 100>>,
                      <<99, 97, 99, 104, 105, 110, 103, 32, 108, 97, 121, 101, 114>>>>],
      \* "spa": "single page", "spa", "client-side routing"
      [pattern |-> <<115, 112, 97>>,
       keywords |-> <<<<115, 105, 110, 103, 108, 101, 32, 112, 97, 103, 101>>,
                      <<115, 112, 97>>,
                      <<99, 108, 105, 101, 110, 116, 45, 115, 105, 100, 101, 32, 114, 111, 117, 116, 105, 110, 103>>>>],
      \* "ssr": "server-side rendering", "ssr", "next.js", "nuxt"
      [pattern |-> <<115, 115, 114>>,
       keywords |-> <<<<115, 101, 114, 118, 101, 114, 45, 115, 105, 100, 101, 32, 114, 101, 110, 100, 101, 114, 105, 110, 103>>,
                      <<115, 115, 114>>,
                      <<110, 101, 120, 116, 46, 106, 115>>,
                      <<110, 117, 120, 116>>>>],
      \* "component-based": "component", "react", "vue", "angular"
      [pattern |-> <<99, 111, 109, 112, 111, 110, 101, 110, 116, 45, 98, 97, 115, 101, 100>>,
       keywords |-> <<<<99, 111, 109, 112, 111, 110, 101, 110, 116>>,
                      <<114, 101, 97, 99, 116>>,
                      <<118, 117, 101>>,
                      <<97, 110, 103, 117, 108, 97, 114>>>>],
      \* "containerization": "docker", "container", "kubernetes"
      [pattern |-> <<99, 111, 110, 116, 97, 105, 110, 101, 114, 105, 122, 97, 116, 105, 111, 110>>,
       keywords |-> <<<<100, 111, 99, 107, 101, 114>>,
                      <<99, 111, 110, 116, 97, 105, 110, 101, 114>>,
                      <<107, 117, 98, 101, 114, 110, 101, 116, 101, 115>>>>],
      \* "ci-cd": "continuous integration", "continuous deployment", "ci/cd", "pipeline"
      [pattern |-> <<99, 105, 45, 99, 100>>,
       keywords |-> <<<<99, 111, 110, 116, 105, 110, 117, 111, 117, 115, 32, 105, 110, 116, 101, 103, 114, 97, 116, 105, 111, 110>>,
                      <<99, 111, 110, 116, 105, 110, 117, 111, 117, 115, 32, 100, 101, 112, 108, 111, 121, 109, 101, 110, 116>>,
                      <<99, 105, 47, 99, 100>>,
                      <<112, 105, 112, 101, 108, 105, 110, 101>>>>],
      \* "infrastructure-as-code": "terraform", "cloudformation", "iac"
      [pattern |-> <<105, 110, 102, 114, 97, 115, 116, 114, 117, 99, 116, 117, 114, 101, 45, 97, 115, 45, 99, 111, 100, 101>>,
       keywords |-> <<<<116, 101, 114, 114, 97, 102, 111, 114, 109>>,
                      <<99, 108, 111, 117, 100, 102, 111, 114, 109, 97, 116, 105, 111, 110>>,
                      <<105, 97, 99>>>>],
      \* "authentication": "auth", "jwt", "oauth", "login"
      [pattern |-> <<97, 117, 116, 104, 101, 110, 116, 105, 99, 97, 116, 105, 111, 110>>,
       keywords |-> <<<<97, 117, 116, 104>>,
                      <<106, 119, 116>>,
                      <<111, 97, 117, 116, 104>>,
                      <<108, 111, 103, 105, 110>>>>],
      \* "authorization": "permissions", "rbac", "access control"
      [pattern |-> <<97, 117, 116, 104, 111, 114, 105, 122, 97, 116, 105, 111, 110>>,
       keywords |-> <<<<112, 101, 114, 109, 105, 115, 115, 105, 111, 110, 115>>,
                      <<114, 98, 97, 99>>,
                      <<97, 99, 99, 101, 115, 115, 32, 99, 111, 110, 116, 114, 111, 108>>>>],
      \* "api-security": "api key", "rate limiting", "cors"
      [pattern |-> <<97, 112, 105, 45, 115, 101, 99, 117, 114, 105, 116, 121>>,
       keywords |-> <<<<97, 112, 105, 32, 107, 101, 121>>,
                      <<114, 97, 116, 101, 32, 108, 105, 109, 105, 116, 105, 110, 103>>,
                      <<99, 111, 114, 115>>>>]
    >>

\* identifyPatterns: the patterns one of whose keywords occurs in the
\* lower-cased decision and reasoning, as ascending indexes into commonPatterns.
identifyPatterns(decision) ==
    LET text == toLowerCase(decision.decision \o <<SpaceChar>> \o decision.reasoning)
        hit(k) == \E w \in 1..Len(commonPatterns[k].keywords) :
                      includes(text, commonPatterns[k].keywords[w])
    IN  SelectSeq([k \in 1..Len(commonPatterns) |-> k], hit)

\* extractPatterns: per pattern its frequency and up to three example
\* decisions; patterns in order of decreasing frequency, those of equal
\* frequency in the order the map received them.  (SubSeq makes TLC hold a
\* sequence as a tuple of values, computed once.)
extractPatterns(rows) ==
    LET found == SubSeq([i \in 1..Len(rows) |-> identifyPatterns(rows[i])], 1, Len(rows))
        having(k) == {i \in 1..Len(rows) : k \in Range(found[i])}
        count == SubSeq([k \in 1..Len(commonPatterns) |-> Cardinality(having(k))],
                        1, Len(commonPatterns))
        present == {k \in 1..Len(commonPatterns) : count[k] > 0}
        first(k) == CHOOSE i \in having(k) : \A j \in having(k) : i <= j
        \* Map insertion order: by first decision, then by the order of commonPatterns.
        before(j, k) ==
            \/ count[j] > count[k]
            \/ /\ count[j] = count[k]
               /\ \/ first(j) < first(k)
                  \/ first(j) = first(k) /\ j < k
        \* The Set of examples keeps the first occurrence of each decision text.
        fresh(k) == {i \in having(k) :
                        \A j \in having(k) : j < i => rows[j].decision # rows[i].decision}
        examples(k) == [p \in 1..Min2(3, Cardinality(fresh(k))) |->
                           rows[Ascending(fresh(k))[p]].decision]
    IN  SubSeq([p \in 1..Cardinality(present) |->
                   LET k == CHOOSE k \in present :
                                Cardinality({j \in present : before(j, k)}) = p - 1
                   IN  [pattern |-> commonPatterns[k].pattern,
                        frequency |-> count[k],
                        examples |-> SubSeq(examples(k), 1, Len(examples(k)))]],
               1, Cardinality(present))

\* rankPatternsByRelevance: relevance in millionths; Math.log(frequency + 1) * 0.2
\* is read from a table of its values for frequencies 1 to 8.
rankPatternsByRelevance(found, query) ==
    LET queryLower == toLowerCase(query)
        logFifth == <<138629, 219722, 277258, 321887, 358351, 389182, 415888, 439444>>
        relevance(p) ==
            LET matches == Cardinality({e \in 1..Len(found[p].examples) :
                               includes(toLowerCase(found[p].examples[e]), queryLower)})
            IN  (IF includes(toLowerCase(found[p].pattern), queryLower) THEN 500000 ELSE 0)
                + (matches * 300000) \div Len(found[p].examples)
                + logFifth[found[p].frequency]
        before(j, k) == relevance(j) > relevance(k) \/ (relevance(j) = relevance(k) /\ j < k)
    IN  SubSeq([p \in 1..Len(found) |->
                   LET k == CHOOSE k \in 1..Len(found) :
                                Cardinality({j \in 1..Len(found) : before(j, k)}) = p - 1
                   IN  [pattern |-> found[k].pattern, frequency |-> found[k].frequency,
                        examples |-> found[k].examples, relevance |-> relevance(k)]],
               1, Len(found))

\* generateArchitecturalSummary: the summary text, and the array it was given
\* as Array.prototype.sort leaves it: most recent first, equal dates in the
\* order they had.
generateArchitecturalSummary(rows) ==
    LET before(j, k) == \/ rows[j].created_at > rows[k].created_at
                        \/ rows[j].created_at = rows[k].created_at /\ j < k
        \* The summary of the patterns found and of the rows once sorted.
        summary(found, sorted) ==
            LET \* Object.entries(typeCount): the types in order of first occurrence.
                firstOfType == {i \in 1..Len(sorted) : \A j \in 1..(i - 1) : sorted[j].type # sorted[i].type}
                \* "- ", ": "
                typeLine(i) == <<45, 32>> \o sorted[i].type \o <<58, 32>>
                               \o DecimalText(Cardinality({j \in 1..Len(sorted) : sorted[j].type = sorted[i].type}))
                               \* "\n"
                               \o <<10>>
                \* "- ", " (used "
                patternLine(p) == <<45, 32>> \o found[p].pattern \o <<32, 40, 117, 115, 101, 100, 32>>
                                  \* " times)\n"
                                  \o DecimalText(found[p].frequency) \o <<32, 116, 105, 109, 101, 115, 41, 10>>
                \* ". **", "**: "
                recentLine(i) == DecimalText(i) \o <<46, 32, 42, 42>> \o sorted[i].type \o <<42, 42, 58, 32>>
                                 \* "\n"
                                 \o sorted[i].decision \o <<10>>
            IN  [decisions |-> sorted,
                 text |->
                    \* "## Project Architecture Summary\n\n"
                    <<35, 35, 32, 80, 114, 111, 106, 101, 99, 116, 32, 65, 114, 99, 104, 105, 116, 101, 99, 116, 117, 114, 101, 32, 83, 117, 109, 109, 97, 114, 121, 10, 10>>
                    \* "**Total Decisions:** ", "\n\n"
                    \o <<42, 42, 84, 111, 116, 97, 108, 32, 68, 101, 99, 105, 115, 105, 111, 110, 115, 58, 42, 42, 32>> \o DecimalText(Len(sorted)) \o <<10, 10>>
                    \* "**Decision Types:**\n"
                    \o <<42, 42, 68, 101, 99, 105, 115, 105, 111, 110, 32, 84, 121, 112, 101, 115, 58, 42, 42, 10>>
                    \o Join([p \in 1..Cardinality(firstOfType) |-> typeLine(Ascending(firstOfType)[p])], << >>)
                    \o (IF Len(found) > 0
                        \* "\n**Common Patterns:**\n"
                        THEN <<10, 42, 42, 67, 111, 109, 109, 111, 110, 32, 80, 97, 116, 116, 101, 114, 110, 115, 58, 42, 42, 10>>
                             \o Join([p \in 1..Min2(5, Len(found)) |-> patternLine(p)], << >>)
                        ELSE << >>)
                    \* "\n**Recent Decisions:**\n"
                    \o <<10, 42, 42, 82, 101, 99, 101, 110, 116, 32, 68, 101, 99, 105, 115, 105, 111, 110, 115, 58, 42, 42, 10>>
                    \o Join([i \in 1..Min2(5, Len(sorted)) |-> recentLine(i)], << >>)]
    IN  summary(extractPatterns(rows),
                SubSeq([p \in 1..Len(rows) |->
                            rows[CHOOSE k \in 1..Len(rows) :
                                Cardinality({j \in 1..Len(rows) : before(j, k)}) = p - 1]],
                        1, Len(rows)))

-----------------------------------------------------------------------------
(* The decision_patterns table and TigerCloudDB.getArchitecturalPatterns.  *)

\* getArchitecturalPatterns: ... WHERE usage_count > 0 [AND tech_stack && $n]
\* [AND $n = ANY(ARRAY['general', $n])] ORDER BY usage_count DESC,
\* success_rate DESC LIMIT; rows equal in both keys come in any order.
getArchitecturalPatterns(techStack, projectType, limit) ==
    LET ids == {i \in Indexes(patterns) :
                   /\ patterns[i].usage_count > 0
                   /\ (IsSome(techStack) /\ Len(Val(techStack)) > 0
                          => Range(patterns[i].tech_stack) \cap Range(Val(techStack)) # {})
                   \* "general"
                   /\ (TruthyText(projectType)
                          \* "general"
                          => Val(projectType) \in {<<103, 101, 110, 101, 114, 97, 108>>, Val(projectType)})}
        key == [i \in ids |-> 0 - (patterns[i].usage_count * 1001 + patterns[i].success_rate)]
    IN  {[k \in 1..Min2(limit, Len(s)) |-> patterns[s[k]]] : s \in Orderings(ids, key)}

-----------------------------------------------------------------------------
(* ToolHandler: recall_context, discover_patterns and get_timeline.        *)

\* The clock ticks twice a day.
TicksPerDay == 2

\* created_at.toISOString().split('T')[0], the clock starting in January 2025.
DateText(t) ==
    LET day == t \div TicksPerDay + 1
    \* "2025-01-"
    IN  <<50, 48, 50, 53, 45, 48, 49, 45>> \o (IF day < 10 THEN <<48>> ELSE << >>) \o DecimalText(day)

\* handleRecallContext(args, projectId), the provider answering `answer` to
\* the embedding request for the query.
RecallContext(args, projectId, answer) ==
    LET limit == IF IsSome(args.limit) THEN Val(args.limit) ELSE 10
        listings ==
            IF TruthyText(args.query)
            THEN {IF found.threw THEN found
                  ELSE Returned([k \in 1..Len(found.value) |-> found.value[k].row]) :
                     found \in searchDecisionsByVector(
                                   generateQueryEmbedding(Val(args.query), answer),
                                   Some(projectId), limit)}
            ELSE {Returned(rows) : rows \in getProjectDecisions(projectId, limit)}
        detail(d, index) ==
            \* "### ", ". ", ": "
            <<35, 35, 35, 32>> \o DecimalText(index) \o <<46, 32>> \o toUpperCase(d.type) \o <<58, 32>>
            \* "\n"
            \o d.decision \o <<10>>
            \* "**Reasoning**: ", "\n"
            \o <<42, 42, 82, 101, 97, 115, 111, 110, 105, 110, 103, 42, 42, 58, 32>> \o d.reasoning \o <<10>>
            \o (IF Len(d.alternatives_considered) > 0
                \* "**Alternatives Considered**: "
                THEN <<42, 42, 65, 108, 116, 101, 114, 110, 97, 116, 105, 118, 101, 115, 32, 67, 111, 110, 115, 105, 100, 101, 114, 101, 100, 42, 42, 58, 32>>
                     \* ", ", "\n"
                     \o Join(d.alternatives_considered, <<44, 32>>) \o <<10>>
                ELSE << >>)
            \o (IF Len(d.files_affected) > 0
                \* "**Files Affected**: ", ", ", "\n"
                THEN <<42, 42, 70, 105, 108, 101, 115, 32, 65, 102, 102, 101, 99, 116, 101, 100, 42, 42, 58, 32>> \o Join(d.files_affected, <<44, 32>>) \o <<10>>
                ELSE << >>)
            \* Math.round(decision.confidence * 100)
            \* "**Confidence**: ", "%\n"
            \o <<42, 42, 67, 111, 110, 102, 105, 100, 101, 110, 99, 101, 42, 42, 58, 32>> \o DecimalText((d.confidence + 5) \div 10) \o <<37, 10>>
            \* "**Date**: ", "\n"
            \o <<42, 42, 68, 97, 116, 101, 42, 42, 58, 32>> \o DateText(d.created_at) \o <<10>>
            \* "\n---\n\n"
            \o <<10, 45, 45, 45, 10, 10>>
        result(listing) ==
            IF listing.threw
            THEN [ok |-> FALSE, listed |-> << >>, rows |-> << >>,
                  \* "❌ Failed to recall context: Database query failed"
                  text |-> <<10060, 32, 70, 97, 105, 108, 101, 100, 32, 116, 111, 32, 114, 101, 99, 97, 108, 108, 32, 99, 111, 110, 116, 101, 120, 116, 58, 32, 68, 97, 116, 97, 98, 97, 115, 101, 32, 113, 117, 101, 114, 121, 32, 102, 97, 105, 108, 101, 100>>]
            ELSE IF Len(listing.value) = 0
            THEN [ok |-> TRUE, listed |-> << >>, rows |-> << >>,
                  text |-> IF TruthyText(args.query)
                           \* "No decisions found matching query: \""
                           THEN <<78, 111, 32, 100, 101, 99, 105, 115, 105, 111, 110, 115, 32, 102, 111, 117, 110, 100, 32, 109, 97, 116, 99, 104, 105, 110, 103, 32, 113, 117, 101, 114, 121, 58, 32, 34>>
                                \* "\""
                                \o Val(args.query) \o <<34>>
                           \* "No previous decisions found for this project. This appears to be a fresh start!"
                           ELSE <<78, 111, 32, 112, 114, 101, 118, 105, 111, 117, 115, 32, 100, 101, 99, 105, 115, 105, 111, 110, 115, 32, 102, 111, 117, 110, 100, 32, 102, 111, 114, 32, 116, 104, 105, 115, 32, 112, 114, 111, 106, 101, 99, 116, 46, 32, 84, 104, 105, 115, 32, 97, 112, 112, 101, 97, 114, 115, 32, 116, 111, 32, 98, 101, 32, 97, 32, 102, 114, 101, 115, 104, 32, 115, 116, 97, 114, 116, 33>>]
            ELSE LET rendered(summary) ==
                     [ok |-> TRUE, listed |-> listing.value, rows |-> summary.decisions,
                      \* "\n\n**Detailed Decisions:**\n\n"
                      text |-> summary.text \o <<10, 10, 42, 42, 68, 101, 116, 97, 105, 108, 101, 100, 32, 68, 101, 99, 105, 115, 105, 111, 110, 115, 58, 42, 42, 10, 10>>
                               \o Join([i \in 1..Len(summary.decisions) |->
                                           detail(summary.decisions[i], i)], << >>)]
                 IN  rendered(generateArchitecturalSummary(listing.value))
    IN  /\ \E listing \in listings :
               last' = [op |-> "recall_context", args |-> args, projectId |-> projectId]
                       @@ result(listing)
        /\ UNCHANGED <<embedCall, projects, sessions, decisions, now, written, ctx,
                       patterns, calls>>

\* handleDiscoverPatterns(args): the result holds the parts the text is
\* rendered from, the five first community patterns and database patterns.
DiscoverPatterns(args, answer) ==
    LET none == [publicDecisions |-> << >>, community |-> << >>, database |-> << >>]
        outcomes ==
            IF Falsy(args.query)
            THEN {[ok |-> FALSE, kind |-> "Query is required for pattern discovery"] @@ none}
            ELSE {IF Len(rows) = 0
                  THEN {[ok |-> TRUE, kind |-> "No architectural patterns found"] @@ none}
                  ELSE {IF found.threw
                        THEN [ok |-> FALSE, kind |-> MsgQuery] @@ none
                        ELSE LET public == [k \in 1..Len(found.value) |-> found.value[k].row]
                                 ranked == rankPatternsByRelevance(extractPatterns(public),
                                                                   Val(args.query))
                             IN  [ok |-> TRUE, kind |-> "Architectural Patterns Discovery",
                                  publicDecisions |-> public,
                                  community |-> SubSeq(ranked, 1, Min2(5, Len(ranked))),
                                  database |-> SubSeq(rows, 1, Min2(5, Len(rows)))] :
                           found \in searchDecisionsByVector(
                                         generateQueryEmbedding(Val(args.query), answer),
                                         None, 20)} :
                     rows \in getArchitecturalPatterns(args.tech_stack, args.project_type, 10)}
    IN  /\ \E outcome \in (IF Falsy(args.query) THEN outcomes ELSE UNION outcomes) :
               last' = [op |-> "discover_patterns", args |-> args] @@ outcome
        /\ UNCHANGED <<embedCall, projects, sessions, decisions, now, written, ctx,
                       patterns, calls>>

\* handleGetTimeline(args, projectId): the result holds the decisions grouped
\* by date, the dates ascending, as the text lists them.  new Date(since) is a
\* date for the texts DateText produces and invalid for the other texts here.
GetTimeline(args, projectId) ==
    LET midnights == {t \in 0..MaxTime : t % TicksPerDay = 0 /\ DateText(t) = Val(args.since)}
        sinceDate == IF TruthyText(args.since)
                     THEN Some(CHOOSE t \in midnights : TRUE) ELSE None
        grouped(rows) ==
            LET days == {rows[i].created_at \div TicksPerDay : i \in 1..Len(rows)}
            IN  [p \in 1..Cardinality(days) |->
                    [date |-> DateText(Ascending(days)[p] * TicksPerDay),
                     decisions |-> SelectSeq(rows, LAMBDA d :
                                       d.created_at \div TicksPerDay = Ascending(days)[p])]]
    IN  /\ IF TruthyText(args.since) /\ midnights = {}
           THEN last' = [op |-> "get_timeline", args |-> args, projectId |-> projectId,
                         ok |-> FALSE, kind |-> "Invalid date format for \"since\" parameter",
                         rows |-> << >>, days |-> << >>]
           ELSE \E rows \in getDecisionTimeline(projectId, sinceDate, args.category) :
                    last' = [op |-> "get_timeline", args |-> args, projectId |-> projectId,
                             ok |-> TRUE,
                             kind |-> IF Len(rows) = 0 THEN "No decisions found"
                                      ELSE "Project Decision Timeline",
                             rows |-> rows, days |-> grouped(rows)]
        /\ UNCHANGED <<embedCall, projects, sessions, decisions, now, written, ctx,
                       patterns, calls>>

-----------------------------------------------------------------------------
(* SpecTools: the four tools over a registered store, the decision_patterns *)
(* table empty, as the migrations leave it, or filled by an operator.       *)
(* The sessions of project 1 write; project 2 stays without decisions.      *)

SeededPatterns ==
    \* "Layered API" for "react" "frontend"; "Job queue" for "express" "backend";
    \* "Unused" for "general"
    \* "Layered API", "ui over api"
    <<[pattern_name |-> <<76, 97, 121, 101, 114, 101, 100, 32, 65, 80, 73>>, description |-> <<117, 105, 32, 111, 118, 101, 114, 32, 97, 112, 105>>,
       \* "react", "frontend"
       tech_stack |-> <<<<114, 101, 97, 99, 116>>>>, project_type |-> <<102, 114, 111, 110, 116, 101, 110, 100>>,
       usage_count |-> 3, success_rate |-> 900],
      \* "Job queue", "workers"
      [pattern_name |-> <<74, 111, 98, 32, 113, 117, 101, 117, 101>>, description |-> <<119, 111, 114, 107, 101, 114, 115>>,
       \* "express", "backend"
       tech_stack |-> <<<<101, 120, 112, 114, 101, 115, 115>>>>, project_type |-> <<98, 97, 99, 107, 101, 110, 100>>,
       usage_count |-> 3, success_rate |-> 900],
      \* "Unused", "none"
      [pattern_name |-> <<85, 110, 117, 115, 101, 100>>, description |-> <<110, 111, 110, 101>>,
       \* "general"
       tech_stack |-> << >>, project_type |-> <<103, 101, 110, 101, 114, 97, 108>>,
       usage_count |-> 0, success_rate |-> 0]>>

InitTools ==
    /\ embedCall = NoCall /\ RegisteredStore /\ ctx = << >> /\ calls = << >>
    /\ patterns \in {<< >>, SeededPatterns}

NextTools ==
    \/ Tick
    \/ \E args \in {BaseArgs,
                      [BaseArgs EXCEPT !.decision = Some(TextJwtAuth), !.type = Some(Pattern),
                                       !.confidence = Some(855), !.public = Some(FALSE),
                                       !.files_affected = Some(<<TextBogus>>)]},
          s \in Indexes(sessions) :
           /\ sessions[s].project_id = projects[1].id
           /\ RememberDecision(args, sessions[s].project_id, sessions[s].id, AnsReject)
    \/ \E query \in {None, Some(TextUsePg)}, limit \in {None, Some(1), Some(2)},
          p \in Indexes(projects), answer \in {AnsReject, AnsStrings} :
           /\ IF IsSome(query) THEN limit = Some(2) ELSE limit # Some(2) /\ answer = AnsReject
           /\ RecallContext([query |-> query, limit |-> limit], projects[p].id, answer)
    \/ \E query \in {None, Some(TextUsePg)},
          filter \in {<<None, None>>,
                      <<None, Some(SeededPatterns[1].project_type)>>,
                      <<Some(SeededPatterns[1].tech_stack), Some(SeededPatterns[1].project_type)>>} :
           /\ query = None => filter = <<None, None>>
           /\ DiscoverPatterns([query |-> query, tech_stack |-> filter[1],
                                project_type |-> filter[2]], AnsReject)
    \/ \E since \in {None, Some(DateText(TicksPerDay)), Some(TextBogus)},
          category \in {None, Some(Pattern)}, p \in Indexes(projects) :
           /\ category = None <=> since # Some(DateText(TicksPerDay))
           /\ GetTimeline([since |-> since, category |-> category], projects[p].id)

SpecTools == InitTools /\ [][NextTools]_vars


-----------------------------------------------------------------------------
(* SpecCount: handleRememberDecision statement by statement.  The handler  *)
(* awaits the INSERT, the COUNT and the UPDATE in turn; calls in flight    *)
(* interleave at these awaits, and a statement may fail.                   *)

IdleCall ==
    [pc |-> "idle", args |-> BaseArgs, sessionId |-> None, saved |-> None,
     count |-> None, result |-> None]

\* Validation, embedding and saveDecision.
RememberSave(c, args, projectId, sessionId, answer) ==
    /\ calls[c].pc = "idle"
    /\ Len(decisions) < MaxDecisions
    /\ UNCHANGED <<embedCall, projects, sessions, now, last, ctx, patterns>>
    /\ LET error == ValidationError(args)
           record == DecisionRecord(args, projectId, sessionId,
                         generateDecisionEmbedding(Val(args.decision), Val(args.reasoning),
                                                   Val(args.type), answer))
           saved == saveDecision(record)
           failed(message) ==
               [calls EXCEPT ![c] = [@ EXCEPT !.pc = "done", !.args = args,
                   !.sessionId = Some(sessionId),
                   !.result = Some(RememberResult(message, args, sessionId, None))]]
       IN  IF error # MsgNone
           THEN calls' = failed(error) /\ UNCHANGED <<decisions, written>>
           ELSE IF saved.threw
           THEN calls' = failed(MsgQuery) /\ UNCHANGED <<decisions, written>>
           ELSE /\ decisions' = InsertDecision(saved.value)
                /\ written' = Append(written, record)
                /\ calls' = [calls EXCEPT ![c] = [@ EXCEPT !.pc = "count", !.args = args,
                                !.sessionId = Some(sessionId),
                                !.saved = Some(saved.value)]]

\* this.getSessionDecisionCount(sessionId): the count read, or the query fails.
RememberCount(c, fails) ==
    /\ calls[c].pc = "count"
    /\ calls' = [calls EXCEPT ![c] =
           IF fails
           THEN [@ EXCEPT !.pc = "done",
                    !.result = Some(RememberResult(MsgQuery, calls[c].args, Val(calls[c].sessionId), None))]
           ELSE [@ EXCEPT !.pc = "update",
                    !.count = Some(getSessionDecisionCount(decisions, Val(calls[c].sessionId)))]]
    /\ UNCHANGED <<embedCall, projects, sessions, decisions, now, written, last, ctx, patterns>>

\* this.database.updateSessionDecisionCount(sessionId, count) and the return.
RememberUpdate(c, fails) ==
    /\ calls[c].pc = "update"
    /\ IF fails
       THEN /\ calls' = [calls EXCEPT ![c] = [@ EXCEPT !.pc = "done",
                   !.result = Some(RememberResult(MsgQuery, calls[c].args, Val(calls[c].sessionId), None))]]
            /\ UNCHANGED sessions
       ELSE /\ sessions' = updateSessionDecisionCount(Val(calls[c].sessionId),
                                                      Val(calls[c].count))
            /\ calls' = [calls EXCEPT ![c] = [@ EXCEPT !.pc = "done",
                   !.result = Some(RememberResult(MsgNone, calls[c].args,
                                                  Val(calls[c].sessionId), calls[c].saved))]]
    /\ UNCHANGED <<embedCall, projects, decisions, now, written, last, ctx, patterns>>

InitCount ==
    /\ embedCall = NoCall /\ RegisteredStore /\ ctx = << >> /\ patterns = << >>
    /\ calls = [c \in 1..MaxDecisions |-> IdleCall]

NextCount ==
    \/ \E c \in DOMAIN calls, s \in Indexes(sessions),
          args \in {BaseArgs, [BaseArgs EXCEPT !.confidence = Some(1001)]} :
           RememberSave(c, args, sessions[s].project_id, sessions[s].id, AnsReject)
    \/ \E c \in DOMAIN calls, fails \in BOOLEAN : RememberCount(c, fails)
    \/ \E c \in DOMAIN calls, fails \in BOOLEAN : RememberUpdate(c, fails)
    \/ \E p \in Indexes(projects) : GetProjectDecisions(projects[p].id, MaxDecisions)

SpecCount == InitCount /\ [][NextCount]_vars


-----------------------------------------------------------------------------
(* SpecRank: vector search over decisions whose embeddings the provider    *)
(* supplied.  calculateSimilarity is the quotient dot / sqrt(norm), held    *)
(* as the pair of dot and norm = norm1 * norm2, exact for the small         *)
(* components used here.                                                    *)

\* The sum over lo..hi of a[i] * b[i], by halves; a stretch of zeros of a adds nothing.
RECURSIVE DotProduct(_, _, _, _)
DotProduct(a, b, lo, hi) ==
    IF lo > hi \/ \A i \in lo..hi : a[i] = 0 THEN 0
    ELSE IF lo = hi THEN a[lo] * b[lo]
    ELSE LET mid == (lo + hi) \div 2
         IN  DotProduct(a, b, lo, mid) + DotProduct(a, b, mid + 1, hi)

\* calculateSimilarity: throws on embeddings of different lengths.
calculateSimilarity(embedding1, embedding2) ==
    IF Len(embedding1) # Len(embedding2) THEN Thrown
    ELSE Returned([dot |-> DotProduct(embedding1, embedding2, 1, Len(embedding1)),
                   norm |-> DotProduct(embedding1, embedding1, 1, Len(embedding1))
                            * DotProduct(embedding2, embedding2, 1, Len(embedding2))])

NextRank ==
    LET \* The provider's arrays [0.001, 0, ...], [0.003, 0, ...] and [0.001, 0.001, 0, ...].
        unit == TextAnswer(TRUE, TRUE, [i \in 1..FeatureCount |-> IF i = 1 THEN 1 ELSE 0])
        far == TextAnswer(TRUE, TRUE, [i \in 1..FeatureCount |-> IF i = 1 THEN 3 ELSE 0])
        near == TextAnswer(TRUE, TRUE, [i \in 1..FeatureCount |-> IF i <= 2 THEN 1 ELSE 0])
    IN  \/ Tick
        \/ \E args \in SearchArgs, s \in Indexes(sessions), answer \in {far, near} :
               RememberDecision(args, sessions[s].project_id, sessions[s].id, answer)
        \/ \E projectId \in ProjectIds, limit \in Limits :
               SearchDecisionsByVector(generateQueryEmbedding(TextUsePg, unit),
                                       projectId, limit)

SpecRank == Init /\ [][NextRank]_vars


-----------------------------------------------------------------------------
(* SpecCall: the CallTool request handler of the server.  A call first     *)
(* runs ensureProjectContext, whose errors the handler throws on as an     *)
(* McpError; with the context set it returns what the tool's handler       *)
(* returns.                                                                *)

\* The switch of the handler, for a process whose context is established.
CallTool(p, name, args, answer) ==
    /\ ctx[p].pc = "done"
    /\ IF name = "remember_decision"
       THEN RememberDecision(args, Val(ctx[p].currentProjectId),
                             Val(ctx[p].currentSessionId), answer)
       ELSE IF name = "recall_context"
       THEN RecallContext(args, Val(ctx[p].currentProjectId), answer)
       ELSE IF name = "discover_patterns"
       THEN DiscoverPatterns(args, answer)
       ELSE IF name = "get_timeline"
       THEN GetTimeline(args, Val(ctx[p].currentProjectId))
       ELSE /\ last' = McpError("MethodNotFound", "Unknown tool")
            /\ UNCHANGED <<embedCall, projects, sessions, decisions, now, written, ctx,
                           patterns, calls>>

\* Each process runs in a project directory or outside any project.
InitCall ==
    /\ embedCall = NoCall /\ EmptyStore /\ patterns = << >> /\ calls = << >>
    /\ ctx \in [Servers -> {NoContext(ProjectInfo("notes", "hash-notes", Null)),
                            NoContext(ProjectInfo("app", "hash-app", Null)),
                            NoContext(ProjectInfo(Null, Null, Null))}]

NextCall ==
    \E p \in Servers :
        \/ EnsureDetect(p)
        \/ EnsureGetProject(p)
        \/ EnsureCreateProject(p)
        \/ EnsureCreateSession(p)
        \/ \E args \in {BaseArgs, [BaseArgs EXCEPT !.reasoning = None],
                        [BaseArgs EXCEPT !.decision = Some(TextJwtAuth)]},
              answer \in {AnsReject, AnsStrings} :
               CallTool(p, "remember_decision", args, answer)
        \/ \E query \in {None, Some(TextUsePg)}, answer \in {AnsReject, AnsStrings} :
               CallTool(p, "recall_context", [query |-> query, limit |-> None], answer)
        \/ \E query \in {None, Some(TextUsePg)} :
               CallTool(p, "discover_patterns",
                        [query |-> query, tech_stack |-> None, project_type |-> None],
                        AnsReject)
        \/ \E since \in {None, Some(TextBogus)} :
               CallTool(p, "get_timeline", [since |-> since, category |-> None], AnsReject)
        \/ CallTool(p, "list_tools", << >>, AnsReject)

SpecCall == InitCall /\ [][NextCall]_vars

-----------------------------------------------------------------------------
(* SpecDetect: the functions of ProjectDetector that work on a value, each  *)
(* applied to inputs a caller can pass; last holds the call and its result. *)

\* normalizeGitUrl: the repository identifier of a remote URL.
normalizeGitUrl(gitUrl) ==
    LET startsWith(s, p) == Len(s) >= Len(p) /\ SubSeq(s, 1, Len(p)) = p
        endsWith(s, p) == Len(s) >= Len(p) /\ SubSeq(s, Len(s) - Len(p) + 1, Len(s)) = p
        drop(s, n) == SubSeq(s, n + 1, Len(s))
        \* String.prototype.trim on the characters a remote URL can carry.
        inked == {i \in 1..Len(gitUrl) : gitUrl[i] \notin {9, 10, 11, 12, 13, 32}}
        trimmed == IF inked = {} THEN << >>
                   ELSE SubSeq(gitUrl, CHOOSE i \in inked : \A j \in inked : i <= j,
                               CHOOSE i \in inked : \A j \in inked : j <= i)
        \* replace(':', '/') replaces the first colon only.
        firstColon(s) ==
            LET colons == {i \in 1..Len(s) : s[i] = 58}
            IN  IF colons = {} THEN s
                ELSE [s EXCEPT ![CHOOSE i \in colons : \A j \in colons : i <= j] = 47]
        \* "git@"
        ssh(s) == IF startsWith(s, <<103, 105, 116, 64>>) THEN firstColon(drop(s, 4)) ELSE s
        \* "https://"
        https(s) == IF startsWith(s, <<104, 116, 116, 112, 115, 58, 47, 47>>) THEN drop(s, 8)
                    \* "http://"
                    ELSE IF startsWith(s, <<104, 116, 116, 112, 58, 47, 47>>) THEN drop(s, 7)
                    ELSE s
        \* ".git"
        dotGit(s) == IF endsWith(s, <<46, 103, 105, 116>>) THEN SubSeq(s, 1, Len(s) - 4) ELSE s
        \* "/"
        slash(s) == IF endsWith(s, <<47>>) THEN SubSeq(s, 1, Len(s) - 1) ELSE s
    IN  toLowerCase(slash(dotGit(https(ssh(trimmed)))))

\* The spellings of the remote of host/owner/repo: scheme 1 is the SSH
\* shorthand, 2 https, 3 http; with or without ".git", with or without a
\* trailing slash; case 1 as given, 2 with host, owner and repository in
\* capitals, 3 with every letter in capitals.
Remote(scheme, host, owner, repo, dotGit, slash, case) ==
    \* ":", "/"
    LET name == IF case = 1 THEN host \o (IF scheme = 1 THEN <<58>> ELSE <<47>>)
                                 \* "/"
                                 \o owner \o <<47>> \o repo
                \* ":", "/"
                ELSE toUpperCase(host) \o (IF scheme = 1 THEN <<58>> ELSE <<47>>)
                     \* "/"
                     \o toUpperCase(owner) \o <<47>> \o toUpperCase(repo)
        \* "git@"
        url == (CASE scheme = 1 -> <<103, 105, 116, 64>>
                  \* "https://"
                  [] scheme = 2 -> <<104, 116, 116, 112, 115, 58, 47, 47>>
                  \* "http://"
                  [] scheme = 3 -> <<104, 116, 116, 112, 58, 47, 47>>)
               \o name
               \* ".git"
               \o (IF dotGit THEN <<46, 103, 105, 116>> ELSE << >>)
               \* "/"
               \o (IF slash THEN <<47>> ELSE << >>)
    IN  IF case = 3 THEN toUpperCase(url) ELSE url

\* determineProjectType with the backend test moved in front of the frontend test.
determineProjectTypeBackendFirst(techStack, existing) ==
    LET includes_(tag) == tag \in Range(techStack)
    IN  IF includes_("express") \/ includes_("fastapi") \/ includes_("django")
           \/ includes_("rails") THEN "backend"
        ELSE IF includes_("react") \/ includes_("vue") \/ includes_("angular") THEN "frontend"
        ELSE "general"

\* determineProjectType; existing is the set of names under rootPath for
\* which fs.existsSync answers true.
determineProjectType(techStack, existing) ==
    LET includes_(tag) == tag \in Range(techStack)
    IN  IF includes_("react") \/ includes_("vue") \/ includes_("angular") THEN "frontend"
        ELSE IF includes_("express") \/ includes_("fastapi") \/ includes_("django")
                \/ includes_("rails") THEN "backend"
        ELSE IF includes_("nextjs") \/ includes_("nuxt") \/ includes_("gatsby") THEN "fullstack"
        ELSE IF includes_("electron") \/ includes_("tauri") THEN "desktop"
        ELSE IF includes_("react-native") \/ includes_("flutter") THEN "mobile"
        ELSE IF "lib" \in existing /\ (includes_("javascript") \/ includes_("typescript"))
             THEN "library"
        ELSE IF includes_("rust") \/ includes_("go") \/ includes_("c++") THEN "systems"
        ELSE IF includes_("python") /\ ("notebooks" \in existing \/ "data" \in existing)
             THEN "data-science"
        ELSE "general"

\* The tags analyzeTechStack can add that determineProjectType reads, and one
\* it does not read.
Tags ==
    {"react", "vue", "angular", "express", "fastapi", "django", "rails", "nextjs", "nuxt",
     "gatsby", "electron", "tauri", "react-native", "flutter", "javascript", "typescript",
     "rust", "go", "c++", "python", "docker"}

\* SHA-256 (FIPS 180-4) of a sequence of bytes: the eight words of the
\* digest, each a pair of 16-bit halves <<hi, lo>>.  createHash('sha256') of
\* Node's crypto module computes this function.
sha256(message) ==
    LET RECURSIVE Xor3(_, _, _, _), Ch(_, _, _, _), Maj(_, _, _, _)
        \* Bitwise operations on the low n bits of 16-bit numbers.
        Xor3(a, b, c, n) ==
            IF n = 0 THEN 0
            ELSE ((a + b + c) % 2) + 2 * Xor3(a \div 2, b \div 2, c \div 2, n - 1)
        Ch(e, f, g, n) ==
            IF n = 0 THEN 0
            ELSE (IF e % 2 = 1 THEN f % 2 ELSE g % 2)
                 + 2 * Ch(e \div 2, f \div 2, g \div 2, n - 1)
        Maj(a, b, c, n) ==
            IF n = 0 THEN 0
            ELSE (IF (a % 2) + (b % 2) + (c % 2) >= 2 THEN 1 ELSE 0)
                 + 2 * Maj(a \div 2, b \div 2, c \div 2, n - 1)
        xor3(x, y, z) == <<Xor3(x[1], y[1], z[1], 16), Xor3(x[2], y[2], z[2], 16)>>
        add(x, y) == <<(x[1] + y[1] + ((x[2] + y[2]) \div Half)) % Half, (x[2] + y[2]) % Half>>
        shr(x, n) == <<x[1] \div (2^n), (x[2] \div (2^n)) + (x[1] % (2^n)) * (2^(16 - n))>>
        rotr(x, n) ==
            \* From 16 bits on the halves change places.
            IF n >= 16 THEN <<(x[2] \div (2^(n - 16))) + (x[1] % (2^(n - 16))) * (2^(32 - n)),
                              (x[1] \div (2^(n - 16))) + (x[2] % (2^(n - 16))) * (2^(32 - n))>>
            ELSE <<(x[1] \div (2^n)) + (x[2] % (2^n)) * (2^(16 - n)),
                   (x[2] \div (2^n)) + (x[1] % (2^n)) * (2^(16 - n))>>
        K == <<<<17034, 12184>>, <<28983, 17553>>, <<46528, 64463>>, <<59829, 56229>>,
                  <<14678, 49755>>, <<23025, 4593>>, <<37439, 33444>>, <<43804, 24277>>,
                  <<55303, 43672>>, <<4739, 23297>>, <<9265, 34238>>, <<21772, 32195>>,
                  <<29374, 23924>>, <<32990, 45566>>, <<39900, 1703>>, <<49563, 61812>>,
                  <<58523, 27073>>, <<61374, 18310>>, <<4033, 40390>>, <<9228, 41420>>,
                  <<11753, 11375>>, <<19060, 33962>>, <<23728, 43484>>, <<30457, 35034>>,
                  <<38974, 20818>>, <<43057, 50797>>, <<45059, 10184>>, <<48985, 32711>>,
                  <<50912, 3059>>, <<54695, 37191>>, <<1738, 25425>>, <<5161, 10599>>,
                  <<10167, 2693>>, <<11803, 8504>>, <<19756, 28156>>, <<21304, 3347>>,
                  <<25866, 29524>>, <<30314, 2747>>, <<33218, 51502>>, <<37490, 11397>>,
                  <<41663, 59553>>, <<43034, 26187>>, <<49739, 35696>>, <<51052, 20899>>,
                  <<53650, 59417>>, <<54937, 1572>>, <<62478, 13701>>, <<4202, 41072>>,
                  <<6564, 49430>>, <<7735, 27656>>, <<10056, 30540>>, <<13488, 48309>>,
                  <<14620, 3251>>, <<20184, 43594>>, <<23452, 51791>>, <<26670, 28659>>,
                  <<29839, 33518>>, <<30885, 25455>>, <<33992, 30740>>, <<36039, 520>>,
                  <<37054, 65530>>, <<42064, 27883>>, <<48889, 41975>>, <<50801, 30962>>>>
        H0 == <<<<27145, 58983>>, <<47975, 44677>>, <<15470, 62322>>, <<42319, 62778>>,
                  <<20750, 21119>>, <<39685, 26764>>, <<8067, 55723>>, <<23520, 52505>>>>
        \* The message, a 1 bit, zero bits, and the length in bits in 64 bits.
        bits == 8 * Len(message)
        padded == message \o <<128>>
                  \o [i \in 1..((119 - (Len(message) % 64)) % 64) |-> 0]
                  \o <<0, 0, 0, 0, (bits \div 16777216) % 256, (bits \div 65536) % 256,
                       (bits \div 256) % 256, bits % 256>>
        word(b, j) == LET at == 64 * (b - 1) + 4 * (j - 1)
                      IN  <<padded[at + 1] * 256 + padded[at + 2],
                            padded[at + 3] * 256 + padded[at + 4]>>
        RECURSIVE schedule(_), rounds(_, _, _), blocks(_, _)
        \* The message schedule, grown from 16 words to 64.
        schedule(w) ==
            IF Len(w) = 64 THEN w
            ELSE LET t == Len(w) + 1
                     s0 == xor3(rotr(w[t - 15], 7), rotr(w[t - 15], 18), shr(w[t - 15], 3))
                     s1 == xor3(rotr(w[t - 2], 17), rotr(w[t - 2], 19), shr(w[t - 2], 10))
                 IN  schedule(Append(w, add(add(w[t - 16], s0), add(w[t - 7], s1))))
        \* Rounds t..64 on the working variables v = <<a, b, c, d, e, f, g, h>>.
        rounds(v, w, t) ==
            IF t > 64 THEN v
            ELSE LET S1 == xor3(rotr(v[5], 6), rotr(v[5], 11), rotr(v[5], 25))
                     ch == <<Ch(v[5][1], v[6][1], v[7][1], 16), Ch(v[5][2], v[6][2], v[7][2], 16)>>
                     temp1 == add(add(add(v[8], S1), add(ch, K[t])), w[t])
                     S0 == xor3(rotr(v[1], 2), rotr(v[1], 13), rotr(v[1], 22))
                     maj == <<Maj(v[1][1], v[2][1], v[3][1], 16), Maj(v[1][2], v[2][2], v[3][2], 16)>>
                     next == <<add(temp1, add(S0, maj)), v[1], v[2], v[3],
                               add(v[4], temp1), v[5], v[6], v[7]>>
                 IN  IF Len(next) = 8 THEN rounds(next, w, t + 1) ELSE next
        blocks(h, b) ==
            IF 64 * (b - 1) >= Len(padded) THEN h
            ELSE LET w == schedule([j \in 1..16 |-> word(b, j)])
                     v == rounds(h, w, 1)
                     next == [i \in 1..8 |-> add(h[i], v[i])]
                 IN  IF next[1] = next[1] THEN blocks(next, b + 1) ELSE next
    IN  blocks(H0, 1)

\* generatePathHash reading only the first 16 bytes of the path.
generatePathHashOfPrefix(projectPath) ==
    LET digest == sha256(SubSeq(projectPath, 1, Min2(16, Len(projectPath))))
        digit(n) == IF n < 10 THEN 48 + n ELSE 87 + n
        hex(half) == <<digit(half \div 4096), digit((half \div 256) % 16),
                       digit((half \div 16) % 16), digit(half % 16)>>
    IN  hex(digest[1][1]) \o hex(digest[1][2]) \o hex(digest[2][1]) \o hex(digest[2][2])

\* generatePathHash: the first 16 hexadecimal digits of the SHA-256 digest of
\* the path, as code units.  projectPath is absolute, so that path.resolve
\* leaves it as it is.
generatePathHash(projectPath) ==
    LET digest == sha256(projectPath)
        digit(n) == IF n < 10 THEN 48 + n ELSE 87 + n
        hex(half) == <<digit(half \div 4096), digit((half \div 256) % 16),
                       digit((half \div 16) % 16), digit(half % 16)>>
    IN  hex(digest[1][1]) \o hex(digest[1][2]) \o hex(digest[2][1]) \o hex(digest[2][2])

\* Resolved absolute paths, the last one longer than one block of the hash.
Paths ==
    \* "/", "/tmp", "/test/project/path", "/test/project/path1"
    {<<47>>, <<47, 116, 109, 112>>, <<47, 116, 101, 115, 116, 47, 112, 114, 111, 106, 101, 99, 116, 47, 112, 97, 116, 104>>, <<47, 116, 101, 115, 116, 47, 112, 114, 111, 106, 101, 99, 116, 47, 112, 97, 116, 104, 49>>,
     \* "/test/project/path2", "/home/dev", "/home/dev/ap", "/home/dev/app"
     <<47, 116, 101, 115, 116, 47, 112, 114, 111, 106, 101, 99, 116, 47, 112, 97, 116, 104, 50>>, <<47, 104, 111, 109, 101, 47, 100, 101, 118>>, <<47, 104, 111, 109, 101, 47, 100, 101, 118, 47, 97, 112>>, <<47, 104, 111, 109, 101, 47, 100, 101, 118, 47, 97, 112, 112>>,
     \* "/home/dev/App", "/home/dev/app/src"
     <<47, 104, 111, 109, 101, 47, 100, 101, 118, 47, 65, 112, 112>>, <<47, 104, 111, 109, 101, 47, 100, 101, 118, 47, 97, 112, 112, 47, 115, 114, 99>>,
     \* "/home/dev/projects/clients/acme/services/memory/packages/server"
     <<47, 104, 111, 109, 101, 47, 100, 101, 118, 47, 112, 114, 111, 106, 101, 99, 116, 115, 47, 99, 108, 105, 101, 110, 116, 115, 47, 97, 99, 109, 101, 47, 115, 101, 114, 118, 105, 99, 101, 115, 47, 109, 101, 109, 111, 114, 121, 47, 112, 97, 99, 107, 97, 103, 101, 115, 47, 115, 101, 114, 118, 101, 114>>}

\* One call in each behaviour, two of generatePathHash: the functions keep
\* nothing between calls.
NextDetect ==
    \/ /\ last = NoOp
       /\ \* "github.com", "GitLab.io"
          \/ \E scheme \in 1..3, host \in {<<103, 105, 116, 104, 117, 98, 46, 99, 111, 109>>, <<71, 105, 116, 76, 97, 98, 46, 105, 111>>},
                \* "acme", "Bob", "memory", "x.y"
                owner \in {<<97, 99, 109, 101>>, <<66, 111, 98>>}, repo \in {<<109, 101, 109, 111, 114, 121>>, <<120, 46, 121>>},
                dotGit \in BOOLEAN, slash \in BOOLEAN, case \in 1..3 :
                 /\ last' = [op |-> "normalizeGitUrl", ok |-> TRUE,
                             gitUrl |-> Remote(scheme, host, owner, repo, dotGit, slash, case),
                             \* "/", "/"
                             remote |-> host \o <<47>> \o owner \o <<47>> \o repo,
                             result |-> normalizeGitUrl(
                                            Remote(scheme, host, owner, repo, dotGit, slash, case))]
                 /\ UNCHANGED <<embedCall, projects, sessions, decisions, now, written, ctx,
                                patterns, calls>>
          \/ \E techStack \in {<< >>} \cup [1..1 -> Tags] \cup [1..2 -> Tags],
                existing \in {{}, {"lib"}, {"notebooks"}, {"data"}, {"lib", "data"}} :
                 /\ last' = [op |-> "determineProjectType", ok |-> TRUE,
                             techStack |-> techStack, existing |-> existing,
                             result |-> determineProjectType(techStack, existing)]
                 /\ UNCHANGED <<embedCall, projects, sessions, decisions, now, written, ctx,
                                patterns, calls>>
          \/ \E projectPath \in Paths :
                 /\ last' = [op |-> "generatePathHash", ok |-> TRUE, earlier |-> << >>,
                             projectPath |-> projectPath,
                             result |-> generatePathHash(projectPath)]
                 /\ UNCHANGED <<embedCall, projects, sessions, decisions, now, written, ctx,
                                patterns, calls>>
    \* A second call of generatePathHash, keeping what the first one was.
    \/ /\ last.op = "generatePathHash" /\ last.earlier = << >>
       /\ \E projectPath \in Paths :
              last' = [last EXCEPT !.earlier = <<[projectPath |-> last.projectPath,
                                                 result |-> last.result]>>,
                                   !.projectPath = projectPath,
                                   !.result = generatePathHash(projectPath)]
       /\ UNCHANGED <<embedCall, projects, sessions, decisions, now, written, ctx,
                      patterns, calls>>

\* Nothing has been called yet.
SpecDetect == InitEmbed /\ [][NextDetect]_vars

-----------------------------------------------------------------------------
(* SpecRoot: detectProject looking for the project root.  A path is the     *)
(* sequence of its segments, the filesystem root the empty sequence; last   *)
(* holds the call: the listing of every directory, the position of the     *)
(* loop and, once it has returned, the result.                              *)

PROJECT_FILES ==
    {"package.json", "pyproject.toml", "requirements.txt", "Cargo.toml", "go.mod", "pom.xml",
     "build.gradle", "composer.json", "Gemfile", "mix.exs", "deno.json", "bun.lockb"}
VERSION_CONTROL_DIRS == {".git", ".hg", ".svn"}

\* path.dirname; the parent of the root is the root.
dirname(p) == IF Len(p) = 0 THEN p ELSE SubSeq(p, 1, Len(p) - 1)

\* listing is what fs.readdirSync and fs.statSync show of each directory of
\* the chain, by its depth: whether readdirSync throws, and the entries it
\* returns when it does not, each [name, isDirectory].
isProjectRoot(listing, dirPath) ==
    IF listing[Len(dirPath)].throws THEN FALSE
    ELSE LET entries == listing[Len(dirPath)].entries
             hasProjectFile == \E e \in entries : e.name \in PROJECT_FILES
             hasVersionControl ==
                 \E e \in entries : e.name \in VERSION_CONTROL_DIRS /\ e.isDirectory
         IN  hasProjectFile \/ hasVersionControl

\* The loop of findProjectRoot without its test against the root.
findProjectRootNoRootTest ==
    /\ last.op = "detectProject" /\ last.pc = "loop"
    /\ last' = IF isProjectRoot(last.listing, last.currentPath)
               THEN [last EXCEPT !.pc = "returned", !.rootPath = Some(last.currentPath)]
               ELSE [last EXCEPT !.currentPath = dirname(last.currentPath)]
    /\ UNCHANGED <<embedCall, projects, sessions, decisions, now, written, ctx,
                   patterns, calls>>

\* One evaluation of the loop condition of findProjectRoot and, when it
\* holds, one pass of the body.  After the loop detectProject returns null
\* when no root was found.
findProjectRoot ==
    /\ last.op = "detectProject" /\ last.pc = "loop"
    /\ last' = IF last.currentPath = << >>
               THEN [last EXCEPT !.pc = "returned", !.rootPath = None]
               ELSE IF isProjectRoot(last.listing, last.currentPath)
               THEN [last EXCEPT !.pc = "returned", !.rootPath = Some(last.currentPath)]
               ELSE [last EXCEPT !.currentPath = dirname(last.currentPath)]
    /\ UNCHANGED <<embedCall, projects, sessions, decisions, now, written, ctx,
                   patterns, calls>>

\* The deepest directory of the model; the start paths are its ancestors and
\* itself, already absolute, so that path.resolve leaves them as they are.
Deepest == <<"home", "dev", "app">>
Listings ==
    {[throws |-> TRUE, entries |-> {}]}
    \cup {[throws |-> FALSE, entries |-> entries] :
             entries \in {{}, {[name |-> "package.json", isDirectory |-> FALSE]},
                          {[name |-> ".git", isDirectory |-> TRUE],
                           [name |-> "src", isDirectory |-> TRUE]},
                          {[name |-> ".git", isDirectory |-> FALSE]}}}

NextRoot ==
    \/ /\ last = NoOp
       /\ \E listing \in [0..Len(Deepest) -> Listings],
             n \in 0..Len(Deepest) :
              last' = [op |-> "detectProject", ok |-> TRUE, pc |-> "loop",
                       listing |-> listing, startPath |-> SubSeq(Deepest, 1, n),
                       currentPath |-> SubSeq(Deepest, 1, n), rootPath |-> None]
       /\ UNCHANGED <<embedCall, projects, sessions, decisions, now, written, ctx,
                      patterns, calls>>
    \/ findProjectRoot

\* The loop is not suspended: it has no await.
SpecRoot == InitEmbed /\ [][NextRoot]_vars /\ WF_vars(findProjectRoot)

-----------------------------------------------------------------------------
(* SpecLocal: one local (stdio) server process and the tool calls it has    *)
(* in flight.  ctx[1] holds the fields of the server object, calls[c] the   *)
(* position and the local variables of call c; a call gives way to the      *)
(* others at each await.                                                    *)

\* ensureProjectContext as call c runs it, one step for each stretch between
\* two awaits.  When it returns, the handler passes this.currentProjectId
\* and this.currentSessionId to handleRememberDecision in the same stretch.
ensureProjectContext(c) ==
    LET info == ctx[1].projectInfo
        thrown == [calls EXCEPT ![c].pc = "done",
                      ![c].result = Some(McpError("InternalError",
                                         "Tool execution failed: Database query failed"))]
    IN  CASE calls[c].pc = "arrived" ->
                 \* if (this.currentProjectId && this.currentSessionId) return;
                 /\ calls' = IF ctx[1].currentProjectId # None /\ ctx[1].currentSessionId # None
                             THEN [calls EXCEPT ![c].pc = "idle",
                                                ![c].projectId = ctx[1].currentProjectId,
                                                ![c].sessionId = ctx[1].currentSessionId]
                             \* await ProjectDetector.detectProject()
                             ELSE [calls EXCEPT ![c].pc = "getProject"]
                 /\ UNCHANGED <<projects, sessions, ctx>>
          [] calls[c].pc = "getProject" ->
                 /\ calls' = [calls EXCEPT ![c].project = getProject(info.pathHash),
                                           ![c].pc = IF getProject(info.pathHash) = None
                                                     THEN "createProject" ELSE "createSession"]
                 /\ UNCHANGED <<projects, sessions, ctx>>
          [] calls[c].pc = "createProject" ->
                 LET created == createProject([name |-> info.name, path_hash |-> info.pathHash,
                                               tech_stack |-> info.techStack,
                                               project_type |-> info.projectType])
                 IN  IF created.threw
                     THEN calls' = thrown /\ UNCHANGED <<projects, sessions, ctx>>
                     ELSE /\ projects' = Append(projects, created.value)
                          /\ calls' = [calls EXCEPT ![c].project = Some(created.value),
                                                    ![c].pc = "createSession"]
                          /\ UNCHANGED <<sessions, ctx>>
          [] calls[c].pc = "createSession" ->
                 LET session == createSession(Val(calls[c].project).id)
                 IN  IF session.threw
                     THEN calls' = thrown /\ UNCHANGED <<projects, sessions, ctx>>
                     ELSE /\ sessions' = Append(sessions, session.value)
                          /\ ctx' = [ctx EXCEPT
                                 ![1].currentProjectId = Some(Val(calls[c].project).id),
                                 ![1].currentSessionId = Some(session.value.id)]
                          /\ calls' = [calls EXCEPT ![c].pc = "idle",
                                 ![c].projectId = Some(Val(calls[c].project).id),
                                 ![c].sessionId = Some(session.value.id)]
                          /\ UNCHANGED projects
          [] OTHER -> FALSE

InitLocal ==
    /\ embedCall = NoCall /\ EmptyStore /\ patterns = << >>
    /\ ctx = <<NoContext(ProjectInfo("notes", "hash-notes", Null))>>
    /\ calls = [c \in 1..MaxDecisions |->
                   [IdleCall EXCEPT !.pc = "waiting"] @@ [project |-> None, projectId |-> None]]

NextLocal ==
    \* The request arrives.
    \/ \E c \in DOMAIN calls :
           /\ calls[c].pc = "waiting"
           /\ calls' = [calls EXCEPT ![c].pc = "arrived"]
           /\ UNCHANGED <<embedCall, projects, sessions, decisions, now, written, last, ctx,
                          patterns>>
    \/ \E c \in DOMAIN calls :
           /\ ensureProjectContext(c)
           /\ UNCHANGED <<embedCall, decisions, now, written, last, patterns>>
    \/ \E c \in DOMAIN calls,
          args \in {BaseArgs, [BaseArgs EXCEPT !.decision = Some(TextJwtAuth)]} :
           /\ calls[c].projectId # None
           /\ RememberSave(c, args, Val(calls[c].projectId), Val(calls[c].sessionId),
                           AnsReject)
    \/ \E c \in DOMAIN calls : RememberCount(c, FALSE)
    \/ \E c \in DOMAIN calls : RememberUpdate(c, FALSE)

SpecLocal == InitLocal /\ [][NextLocal]_vars

-----------------------------------------------------------------------------
(* SpecRemote: TigerMemoryRemoteServer.  SSE connections are opened by     *)
(* authenticated users; a tool call is posted to /mcp/message with the     *)
(* connection's sessionId, and the CallTool handler runs in steps split at  *)
(* its awaits.  ctx[1] is the server object: its connections (transports    *)
(* and sessions maps, keyed by position) and its currentUserId field.       *)

MaxConnections == 2

Users == {"alice", "bob"}

\* GET /mcp/sse: the transport and the user session are registered.
setupSSE(user) ==
    /\ Len(ctx[1].connections) < MaxConnections
    /\ ctx' = [ctx EXCEPT ![1].connections = Append(@, [userId |-> user])]
    /\ UNCHANGED <<embedCall, projects, sessions, decisions, now, written, last, patterns,
                   calls>>

\* POST /mcp/message up to `await transport.handlePostMessage(req, res)`:
\* this.currentUserId = session.userId, then the request body is awaited.
setupMCPMessageEndpoint(c, conn) ==
    /\ calls[c].pc = "waiting"
    /\ conn \in DOMAIN ctx[1].connections
    /\ ctx' = [ctx EXCEPT ![1].currentUserId = Some(ctx[1].connections[conn].userId)]
    /\ calls' = [calls EXCEPT ![c].pc = "posted", ![c].conn = Some(conn)]
    /\ UNCHANGED <<embedCall, projects, sessions, decisions, now, written, last, patterns>>

\* The CallTool handler once the body has arrived and ensureProjectContext
\* (empty in the remote server) has been awaited: const userId = this.currentUserId.
readCurrentUser(c) ==
    /\ calls[c].pc = "posted"
    /\ calls' = [calls EXCEPT ![c].pc = "getProject",
                              ![c].userId = Some(ctx[1].currentUserId)]
    /\ UNCHANGED <<embedCall, projects, sessions, decisions, now, written, last, ctx,
                   patterns>>

\* The CallTool handler from the project lookup up to the switch on the tool name.
RemoteCallTool(c) ==
    LET thrown == [calls EXCEPT ![c].pc = "done",
                      ![c].result = Some(McpError("InternalError",
                                         "Tool execution failed: Database query failed"))]
    IN  CASE calls[c].pc = "getProject" ->
                 /\ calls' = [calls EXCEPT ![c].project = getProject("remote-hash"),
                                           ![c].pc = IF getProject("remote-hash") = None
                                                     THEN "createProject" ELSE "createSession"]
                 /\ UNCHANGED <<projects, sessions, ctx>>
          [] calls[c].pc = "createProject" ->
                 LET created == createProject([name |-> "remote-project",
                                               path_hash |-> "remote-hash",
                                               tech_stack |-> <<"remote">>,
                                               \* "remote"
                                               project_type |-> "remote"])
                 IN  IF created.threw
                     THEN calls' = thrown /\ UNCHANGED <<projects, sessions, ctx>>
                     ELSE /\ projects' = Append(projects, created.value)
                          /\ calls' = [calls EXCEPT ![c].project = Some(created.value),
                                                    ![c].pc = "createSession"]
                          /\ UNCHANGED <<sessions, ctx>>
          [] calls[c].pc = "createSession" ->
                 \* const session = await this.database.createSession(project.id!)
                 LET session == createSession(Val(calls[c].project).id)
                 IN  /\ sessions' = Append(sessions, session.value)
                     /\ calls' = [calls EXCEPT ![c].pc = "idle",
                            ![c].projectId = Some(Val(calls[c].project).id),
                            ![c].sessionId = Some(session.value.id)]
                     /\ UNCHANGED <<projects, ctx>>
          [] OTHER -> FALSE

\* /mcp/message after handlePostMessage has returned: this.currentUserId =
\* undefined.  The handler's own read is taken to come first.
clearCurrentUser(c) ==
    /\ calls[c].pc \notin {"waiting", "posted"}
    /\ ~calls[c].cleared
    /\ ctx' = [ctx EXCEPT ![1].currentUserId = None]
    /\ calls' = [calls EXCEPT ![c].cleared = TRUE]
    /\ UNCHANGED <<embedCall, projects, sessions, decisions, now, written, last, patterns>>

InitRemote ==
    /\ embedCall = NoCall /\ EmptyStore /\ patterns = << >>
    /\ ctx = <<[connections |-> << >>, currentUserId |-> None]>>
    /\ calls = [c \in 1..MaxDecisions |->
                   [IdleCall EXCEPT !.pc = "waiting"]
                       @@ [project |-> None, projectId |-> None, conn |-> None,
                           userId |-> None, cleared |-> FALSE]]

NextRemote ==
    \/ \E user \in Users : setupSSE(user)
    \/ \E c \in DOMAIN calls, conn \in 1..MaxConnections : setupMCPMessageEndpoint(c, conn)
    \/ \E c \in DOMAIN calls : readCurrentUser(c)
    \/ \E c \in DOMAIN calls :
           /\ RemoteCallTool(c)
           /\ UNCHANGED <<embedCall, decisions, now, written, last, patterns>>
    \/ \E c \in DOMAIN calls : clearCurrentUser(c)
    \/ \E c \in DOMAIN calls :
           /\ calls[c].projectId # None
           /\ RememberSave(c, BaseArgs, Val(calls[c].projectId), Val(calls[c].sessionId),
                           AnsReject)
    \/ \E c \in DOMAIN calls : RememberCount(c, FALSE)
    \/ \E c \in DOMAIN calls : RememberUpdate(c, FALSE)

SpecRemote == InitRemote /\ [][NextRemote]_vars

-----------------------------------------------------------------------------
(* SpecQuery: TigerCloudDB.connect and TigerCloudDB.query.  ctx[1] is the  *)
(* TigerCloudDB object: its isConnected flag and, as history, the number of *)
(* connect() calls that have succeeded.  calls[c] is one storage operation: *)
(* its statement, what it has done so far, what it logged and what it threw.*)

\* The statements of createApiKey and getApiKeyByHash, as query() receives them.
Statements ==
    {[text |-> <<10, 32, 32, 32, 32, 32, 32, 73, 78, 83, 69, 82, 84, 32, 73, 78, 84, 79,
              32, 97, 112, 105, 95, 107, 101, 121, 115, 32, 40, 117, 115, 101, 114, 95,
              105, 100, 44, 32, 107, 101, 121, 95, 104, 97, 115, 104, 44, 32, 110, 97,
              109, 101, 44, 32, 99, 114, 101, 97, 116, 101, 100, 95, 97, 116, 41, 10, 32,
              32, 32, 32, 32, 32, 86, 65, 76, 85, 69, 83, 32, 40, 36, 49, 44, 32, 36, 50,
              44, 32, 36, 51, 44, 32, 78, 79, 87, 40, 41, 41, 10, 32, 32, 32, 32, 32, 32,
              82, 69, 84, 85, 82, 78, 73, 78, 71, 32, 42, 10, 32, 32, 32, 32>>,
      params |-> <<"user-1", hash, "laptop">>] : hash \in {"key-hash-a", "key-hash-b"}}
    \cup {[text |-> <<83, 69, 76, 69, 67, 84, 32, 42, 32, 70, 82, 79, 77, 32, 97, 112, 105,
                   95, 107, 101, 121, 115, 32, 87, 72, 69, 82, 69, 32, 107, 101, 121, 95,
                   104, 97, 115, 104, 32, 61, 32, 36, 49>>,
           params |-> <<hash>>] : hash \in {"key-hash-a", "key-hash-b"}}

\* text.substring(0, 100) + (text.length > 100 ? '...' : '')
TruncatedQuery(text) ==
    IF Len(text) > 100 THEN SubSeq(text, 1, 100) \o <<46, 46, 46>> ELSE text

IdleOperation ==
    [pc |-> "idle", text |-> << >>, params |-> << >>, sawConnected |-> FALSE,
     attempted |-> FALSE, sent |-> FALSE, logged |-> None, error |-> None, rows |-> None]

\* The mutant of connect that raises the flag before the pool has answered.
connectFlagFirst(c, reachable) ==
    /\ calls[c].pc = "connect"
    /\ ctx' = [ctx EXCEPT ![1].isConnected = TRUE,
                          ![1].connects = IF reachable THEN @ + 1 ELSE @]
    /\ calls' = [calls EXCEPT ![c] =
           IF reachable THEN [@ EXCEPT !.pc = "send", !.attempted = TRUE]
           ELSE [@ EXCEPT !.pc = "done", !.attempted = TRUE,
                    !.logged = Some([context |-> "database_connection", query |-> << >>,
                                     params |-> << >>]),
                    !.error = Some([message |-> "Failed to connect to Tiger Cloud database",
                                    code |-> "DB_CONNECTION_FAILED", query |-> << >>])]]
    /\ UNCHANGED <<embedCall, projects, sessions, decisions, now, written, last, patterns>>

\* connect(), called by the operation c: pool.connect() and SELECT NOW() succeed
\* (reachable) or one of them throws.
connect(c, reachable) ==
    /\ calls[c].pc = "connect"
    /\ ctx' = IF reachable
              THEN [ctx EXCEPT ![1].isConnected = TRUE, ![1].connects = @ + 1]
              ELSE ctx
    /\ calls' = [calls EXCEPT ![c] =
           IF reachable THEN [@ EXCEPT !.pc = "send", !.attempted = TRUE]
           ELSE [@ EXCEPT !.pc = "done", !.attempted = TRUE,
                    !.logged = Some([context |-> "database_connection", query |-> << >>,
                                     params |-> << >>]),
                    !.error = Some([message |-> "Failed to connect to Tiger Cloud database",
                                    code |-> "DB_CONNECTION_FAILED", query |-> << >>])]]
    /\ UNCHANGED <<embedCall, projects, sessions, decisions, now, written, last, patterns>>

\* query(text, params) without the call of connect(): the test of isConnected,
\* then pool.query, which returns rows or throws (fails).
query(c, statement, fails) ==
    /\ CASE calls[c].pc = "idle" ->
                calls' = [calls EXCEPT ![c] =
                    [@ EXCEPT !.text = statement.text, !.params = statement.params,
                              !.sawConnected = ctx[1].isConnected,
                              !.pc = IF ctx[1].isConnected THEN "send" ELSE "connect"]]
         [] calls[c].pc = "send" ->
                calls' = [calls EXCEPT ![c] =
                    IF fails
                    THEN [@ EXCEPT !.pc = "done", !.sent = TRUE,
                             !.logged = Some([context |-> "database_query",
                                 query |-> TruncatedQuery(calls[c].text),
                                 params |-> SubSeq(calls[c].params, 1,
                                     IF Len(calls[c].params) < 5 THEN Len(calls[c].params)
                                     ELSE 5)]),
                             !.error = Some([message |-> "Database query failed",
                                             code |-> "DB_QUERY_FAILED",
                                             query |-> calls[c].text])]
                    ELSE [@ EXCEPT !.pc = "done", !.sent = TRUE, !.rows = Some(0)]]
         [] OTHER -> FALSE
    /\ UNCHANGED <<embedCall, projects, sessions, decisions, now, written, last, ctx,
                   patterns>>

InitQuery ==
    /\ embedCall = NoCall /\ EmptyStore /\ patterns = << >>
    /\ ctx = <<[isConnected |-> FALSE, connects |-> 0]>>
    /\ calls = [c \in 1..MaxDecisions |-> IdleOperation]

NextQuery ==
    \/ \E c \in DOMAIN calls, reachable \in BOOLEAN : connect(c, reachable)
    \/ \E c \in DOMAIN calls, statement \in Statements, fails \in BOOLEAN :
           query(c, statement, fails)

SpecQuery == InitQuery /\ [][NextQuery]_vars

-----------------------------------------------------------------------------
(* SpecSession: the session gate of the remote server.  ctx[1] holds the   *)
(* transports and sessions maps of TigerMemoryRemoteServer (their key sets, *)
(* and the user of each session) and, as history, every sessionId issued    *)
(* and every sessionId whose connection has closed.                         *)

MaxSessions == 3

\* The mutant of GET /mcp/sse that registers the connection before it looks at req.user.
McpSseUnchecked(user) ==
    LET sessionId == ctx[1].issued + 1
    IN  /\ ctx[1].issued < MaxSessions
        /\ ctx' = [ctx EXCEPT ![1].issued = sessionId,
                              ![1].transports = @ \cup {sessionId},
                              ![1].sessions = @ \cup {[sessionId |-> sessionId,
                                                        userId |-> user]}]
        /\ last' = [op |-> "sse", ok |-> user # None, sessionId |-> sessionId, userId |-> user,
                    status |-> IF user = None THEN 401 ELSE 200]

\* GET /mcp/sse behind extractUser: user is req.user, None when the request
\* carried no valid credential.  transport.sessionId is a fresh identifier.
McpSse(user) ==
    LET sessionId == ctx[1].issued + 1
    IN  /\ ctx[1].issued < MaxSessions
        /\ IF user = None
           THEN /\ ctx' = ctx
                /\ last' = [op |-> "sse", ok |-> FALSE, sessionId |-> 0, userId |-> None,
                            status |-> 401]
           ELSE /\ ctx' = [ctx EXCEPT ![1].issued = sessionId,
                                      ![1].transports = @ \cup {sessionId},
                                      ![1].sessions = @ \cup {[sessionId |-> sessionId,
                                                                userId |-> user]},
                                      ![1].authenticated = @ \cup {sessionId}]
                /\ last' = [op |-> "sse", ok |-> TRUE, sessionId |-> sessionId,
                            userId |-> user, status |-> 200]

\* transport.onclose of the connection sessionId.
TransportOnClose(sessionId) ==
    /\ sessionId \in ctx[1].transports
    /\ ctx' = [ctx EXCEPT ![1].transports = @ \ {sessionId},
                          ![1].sessions = {s \in @ : s.sessionId # sessionId},
                          ![1].closed = @ \cup {sessionId}]
    /\ last' = [op |-> "close", ok |-> TRUE, sessionId |-> sessionId, userId |-> None,
                status |-> 0]

\* POST /mcp/message?sessionId=...: 401, 404, or transport.handlePostMessage.
McpMessage(sessionId) ==
    LET session == {s \in ctx[1].sessions : s.sessionId = sessionId}
    IN  /\ ctx' = ctx
        /\ last' = [op |-> "message", sessionId |-> sessionId,
                    ok |-> session # {} /\ sessionId \in ctx[1].transports,
                    \* the userId the endpoint logs before it forwards
                    userId |-> IF session # {} /\ sessionId \in ctx[1].transports
                               THEN (CHOOSE s \in session : TRUE).userId ELSE None,
                    status |-> IF session = {} THEN 401
                               ELSE IF sessionId \notin ctx[1].transports THEN 404
                               ELSE 202]

InitSession ==
    /\ embedCall = NoCall /\ EmptyStore /\ patterns = << >> /\ calls = << >>
    /\ ctx = <<[issued |-> 0, transports |-> {}, sessions |-> {}, authenticated |-> {},
                closed |-> {}]>>

NextSession ==
    \/ /\ \E user \in {None} \cup {Some(u) : u \in Users} : McpSse(user)
       /\ UNCHANGED <<embedCall, projects, sessions, decisions, now, written, patterns,
                      calls>>
    \/ /\ \E sessionId \in 1..MaxSessions : TransportOnClose(sessionId)
       /\ UNCHANGED <<embedCall, projects, sessions, decisions, now, written, patterns,
                      calls>>
    \/ /\ \E sessionId \in 0..(MaxSessions + 1) : McpMessage(sessionId)
       /\ UNCHANGED <<embedCall, projects, sessions, decisions, now, written, patterns,
                      calls>>

SpecSession == InitSession /\ [][NextSession]_vars

-----------------------------------------------------------------------------
(* SpecDevice: the device flow of createAuthRoutes.  ctx[1] holds the      *)
(* deviceCodes map, the number of device codes issued, and the api_keys     *)
(* table with, as history, the device code and the time each key was made   *)
(* for.  calls holds the browser round trips through GitHub: a verified     *)
(* user code on its way to /github/callback.  `now` is Date.now(), counted  *)
(* in periods of expires_in.                                                *)

MaxDevices == 2
MaxKeys == 2

\* expires_in, 600 seconds: one period of the clock.
ExpiresIn == 1

NoAnswer == [ok |-> FALSE, device_code |-> 0, entry |-> None, at |-> 0, error |-> "",
             apiKey |-> None]

\* deviceCodes.delete(device_code)
DeleteDevice(deviceCodes, device_code) ==
    [d \in DOMAIN deviceCodes \ {device_code} |-> deviceCodes[d]]

\* POST /device: a new device code and user code, valid for expires_in.
DeviceStart ==
    LET device_code == ctx[1].issued + 1
    IN  /\ ctx[1].issued < MaxDevices
        /\ ctx' = [ctx EXCEPT ![1].issued = device_code,
                      ![1].deviceCodes = [d \in DOMAIN @ \cup {device_code} |->
                          IF d = device_code
                          THEN [user_code |-> device_code, expires_at |-> now + ExpiresIn,
                                apiKey |-> None, username |-> None]
                          ELSE @[d]]]
        /\ last' = [NoAnswer EXCEPT !.ok = TRUE, !.device_code = device_code, !.at = now]
                   @@ [op |-> "device"]
        /\ UNCHANGED <<now, calls>>

\* POST /device/verify: the first unexpired entry with this user code is sent to
\* GitHub as state; otherwise the browser returns to the form.
DeviceVerify(user_code) ==
    LET found == {d \in DOMAIN ctx[1].deviceCodes :
                     /\ ctx[1].deviceCodes[d].user_code = user_code
                     /\ ctx[1].deviceCodes[d].expires_at > now}
    IN  /\ Len(calls) < MaxKeys
        /\ IF found = {}
           THEN /\ last' = [NoAnswer EXCEPT !.error = "invalid_code", !.at = now]
                           @@ [op |-> "device/verify"]
                /\ UNCHANGED calls
           ELSE /\ calls' = Append(calls, [pc |-> "github",
                                           state |-> CHOOSE d \in found : TRUE,
                                           username |-> None, key |-> None])
                /\ last' = [NoAnswer EXCEPT !.ok = TRUE, !.at = now,
                                            !.device_code = CHOOSE d \in found : TRUE]
                           @@ [op |-> "device/verify"]
        /\ UNCHANGED <<now, ctx>>

\* GET /github/callback once GitHub has named the user: at "github" the test
\* deviceCodes.has(state) and `await oauth.generateApiKey(...)`, at "store" the
\* assignment to deviceCodes.get(state), which throws when the entry has gone.
GithubCallback(c, user) ==
    LET device == calls[c].state \in DOMAIN ctx[1].deviceCodes
        key == Len(ctx[1].apiKeys) + 1
    IN  CASE calls[c].pc = "github" ->
                 /\ ctx' = [ctx EXCEPT ![1].apiKeys = Append(@,
                               [key |-> key, username |-> user,
                                name |-> IF device THEN "CLI Device Flow" ELSE "CLI Login",
                                device_code |-> calls[c].state, at |-> now,
                                expires_at |-> IF device
                                               THEN ctx[1].deviceCodes[calls[c].state].expires_at
                                               ELSE 0])]
                 /\ calls' = [calls EXCEPT ![c].pc = IF device THEN "store" ELSE "done",
                                           ![c].username = Some(user), ![c].key = Some(key)]
                 /\ UNCHANGED <<now, last>>
          [] calls[c].pc = "store" ->
                 /\ ctx' = IF device
                           THEN [ctx EXCEPT ![1].deviceCodes[calls[c].state] =
                                    [@ EXCEPT !.apiKey = calls[c].key,
                                              !.username = calls[c].username]]
                           ELSE ctx
                 /\ calls' = [calls EXCEPT ![c].pc = IF device THEN "done" ELSE "failed"]
                 /\ UNCHANGED <<now, last>>
          [] OTHER -> FALSE

\* The mutant of the poll that looks for the key before it looks at the expiry.
DeviceTokenKeyFirst(device_code) ==
    LET known == device_code \in DOMAIN ctx[1].deviceCodes
        entry == ctx[1].deviceCodes[device_code]
        answer == [NoAnswer EXCEPT !.device_code = device_code, !.at = now,
                                   !.entry = IF known THEN Some(entry) ELSE None]
                  @@ [op |-> "device/token"]
    IN  /\ UNCHANGED <<now, calls>>
        /\ IF device_code = 0
           THEN last' = [answer EXCEPT !.error = "invalid_request"] /\ ctx' = ctx
           ELSE IF ~known
           THEN last' = [answer EXCEPT !.error = "invalid_grant"] /\ ctx' = ctx
           ELSE IF entry.apiKey # None
           THEN /\ last' = [answer EXCEPT !.ok = TRUE, !.apiKey = entry.apiKey]
                /\ ctx' = [ctx EXCEPT ![1].deviceCodes = DeleteDevice(@, device_code),
                                      ![1].delivered = Append(@, Val(entry.apiKey))]
           ELSE IF entry.expires_at < now
           THEN /\ last' = [answer EXCEPT !.error = "expired_token"]
                /\ ctx' = [ctx EXCEPT ![1].deviceCodes = DeleteDevice(@, device_code)]
           ELSE last' = [answer EXCEPT !.error = "authorization_pending"] /\ ctx' = ctx

\* The mutant of the poll that returns the key and keeps the entry.
DeviceTokenKeepsEntry(device_code) ==
    LET known == device_code \in DOMAIN ctx[1].deviceCodes
        entry == ctx[1].deviceCodes[device_code]
        answer == [NoAnswer EXCEPT !.device_code = device_code, !.at = now,
                                   !.entry = IF known THEN Some(entry) ELSE None]
                  @@ [op |-> "device/token"]
    IN  /\ UNCHANGED <<now, calls>>
        /\ IF device_code = 0
           THEN last' = [answer EXCEPT !.error = "invalid_request"] /\ ctx' = ctx
           ELSE IF ~known
           THEN last' = [answer EXCEPT !.error = "invalid_grant"] /\ ctx' = ctx
           ELSE IF entry.expires_at < now
           THEN /\ last' = [answer EXCEPT !.error = "expired_token"]
                /\ ctx' = [ctx EXCEPT ![1].deviceCodes = DeleteDevice(@, device_code)]
           ELSE IF entry.apiKey = None
           THEN last' = [answer EXCEPT !.error = "authorization_pending"] /\ ctx' = ctx
           ELSE /\ last' = [answer EXCEPT !.ok = TRUE, !.apiKey = entry.apiKey]
                /\ ctx' = [ctx EXCEPT ![1].delivered = Append(@, Val(entry.apiKey))]

\* POST /device/token; device_code 0 stands for a request without one.  The
\* answer keeps the entry as the poll found it.
DeviceToken(device_code) ==
    LET known == device_code \in DOMAIN ctx[1].deviceCodes
        entry == ctx[1].deviceCodes[device_code]
        answer == [NoAnswer EXCEPT !.device_code = device_code, !.at = now,
                                   !.entry = IF known THEN Some(entry) ELSE None]
                  @@ [op |-> "device/token"]
    IN  /\ UNCHANGED <<now, calls>>
        /\ IF device_code = 0
           THEN last' = [answer EXCEPT !.error = "invalid_request"] /\ ctx' = ctx
           ELSE IF ~known
           THEN last' = [answer EXCEPT !.error = "invalid_grant"] /\ ctx' = ctx
           ELSE IF entry.expires_at < now
           THEN /\ last' = [answer EXCEPT !.error = "expired_token"]
                /\ ctx' = [ctx EXCEPT ![1].deviceCodes = DeleteDevice(@, device_code)]
           ELSE IF entry.apiKey = None
           THEN last' = [answer EXCEPT !.error = "authorization_pending"] /\ ctx' = ctx
           ELSE /\ last' = [answer EXCEPT !.ok = TRUE, !.apiKey = entry.apiKey]
                /\ ctx' = [ctx EXCEPT ![1].deviceCodes = DeleteDevice(@, device_code),
                                      ![1].delivered = Append(@, Val(entry.apiKey))]

InitDevice ==
    /\ embedCall = NoCall /\ patterns = << >> /\ calls = << >>
    /\ projects = << >> /\ sessions = << >> /\ decisions = << >> /\ written = << >>
    /\ now = 0 /\ last = NoOp
    /\ ctx = <<[issued |-> 0, deviceCodes |-> << >>, apiKeys |-> << >>,
                delivered |-> << >>]>>

NextDevice ==
    \/ Tick
    \/ /\ DeviceStart
       /\ UNCHANGED <<embedCall, projects, sessions, decisions, written, patterns>>
    \/ /\ \E user_code \in 1..MaxDevices : DeviceVerify(user_code)
       /\ UNCHANGED <<embedCall, projects, sessions, decisions, written, patterns>>
    \/ /\ \E c \in DOMAIN calls : GithubCallback(c, "alice")
       /\ UNCHANGED <<embedCall, projects, sessions, decisions, written, patterns>>
    \/ /\ \E device_code \in 0..MaxDevices : DeviceToken(device_code)
       /\ UNCHANGED <<embedCall, projects, sessions, decisions, written, patterns>>

SpecDevice == InitDevice /\ [][NextDevice]_vars

-----------------------------------------------------------------------------
(* SpecAuth: AuthMiddleware.extractUser.  A JWT or an API key is held as    *)
(* the user it verifies for, None when it verifies for nobody.  A request   *)
(* carries at most an Authorization header (scheme and credential), an      *)
(* api_key query parameter and a token cookie.                              *)

\* verifyJWT(token): the decoded claims, or a thrown TigerMemoryError.
verifyJWT(token) == IF token = None THEN Thrown ELSE Returned(token)

\* verifyApiKey(key): the user of the key, or null.
verifyApiKey(key) == key

\* extractUser(req, res, next): the user set on the request and the number of
\* calls of next().
extractUser(req) ==
    LET header ==
            IF req.authorization = None THEN Returned(None)
            ELSE IF Val(req.authorization).scheme = "Bearer"
            THEN verifyJWT(Val(req.authorization).credential)
            ELSE IF Val(req.authorization).scheme = "ApiKey"
            THEN Returned(verifyApiKey(Val(req.authorization).credential))
            ELSE Returned(None)
        fromQuery(user) ==
            IF user = None /\ req.api_key # None
            THEN Returned(verifyApiKey(Val(req.api_key))) ELSE Returned(user)
        fromCookie(user) ==
            IF user = None /\ req.token # None THEN verifyJWT(Val(req.token))
            ELSE Returned(user)
    IN  IF header.threw THEN [user |-> None, next |-> 1]
        ELSE IF fromCookie(fromQuery(header.value).value).threw THEN [user |-> None, next |-> 1]
        ELSE [user |-> fromCookie(fromQuery(header.value).value).value, next |-> 1]

NextAuth ==
    /\ last = NoOp
    /\ \E scheme \in {"Bearer", "ApiKey", "Basic", "none"},
          credential, api_key, token \in {None, Some(None)} \cup {Some(Some(u)) : u \in Users} :
           /\ (scheme = "none") <=> (credential = None)
           /\ last' = [op |-> "extractUser", ok |-> TRUE,
                       req |-> [authorization |->
                                    IF scheme = "none" THEN None
                                    ELSE Some([scheme |-> scheme,
                                               credential |-> Val(credential)]),
                                api_key |-> api_key, token |-> token],
                       result |-> extractUser(
                                   [authorization |->
                                        IF scheme = "none" THEN None
                                        ELSE Some([scheme |-> scheme,
                                                   credential |-> Val(credential)]),
                                    api_key |-> api_key, token |-> token])]
    /\ UNCHANGED <<embedCall, projects, sessions, decisions, now, written, ctx, patterns,
                   calls>>

SpecAuth == InitEmbed /\ [][NextAuth]_vars

-----------------------------------------------------------------------------
(* SpecMigrate: the migrate command of the CLI, one step per awaited        *)
(* group of statements.  ctx[1] holds the command's position (pc, the index *)
(* of the migration in hand), the migrations table (recorded), the          *)
(* migrations whose transaction has committed, and, as history, every       *)
(* execution of a migration's SQL: the run, the migration, the file, whether *)
(* it committed, and whether the migration was recorded when it started.    *)

MaxRuns == 2

migrations ==
    <<[id |-> "001_initial_schema", fallback |-> TRUE],
      [id |-> "002_fix_triggers", fallback |-> FALSE],
      [id |-> "003_add_auth_support", fallback |-> FALSE],
      [id |-> "004_git_based_projects", fallback |-> FALSE]>>

\* checkMigrationStatus: applied when the row is found; not applied when it is
\* missing or when one of the two queries throws.
checkMigrationStatus(recorded, migrationId, fails) ==
    IF fails THEN FALSE ELSE migrationId \in recorded

\* recordMigrationSuccess: the row is written unless the query throws, which is
\* logged and ignored.
recordMigrationSuccess(recorded, migrationId, fails) ==
    IF fails THEN recorded ELSE recorded \cup {migrationId}

\* The command is started.
MigrateStart ==
    /\ ctx[1].pc = "idle" /\ ctx[1].run < MaxRuns
    /\ ctx' = [ctx EXCEPT ![1].pc = "allApplied", ![1].index = 1, ![1].run = @ + 1]

\* The first loop: are all migrations applied?
MigrateAllApplied(fails) ==
    /\ ctx[1].pc = "allApplied"
    /\ ctx' = IF ~checkMigrationStatus(ctx[1].recorded, migrations[ctx[1].index].id, fails)
              THEN [ctx EXCEPT ![1].pc = "check", ![1].index = 1]
              ELSE IF ctx[1].index = Len(migrations)
              THEN [ctx EXCEPT ![1].pc = "idle"]
              ELSE [ctx EXCEPT ![1].index = @ + 1]

\* The second loop, head: the migration in hand is skipped when applied.
MigrateCheck(fails) ==
    /\ ctx[1].pc = "check"
    /\ ctx' = IF ~checkMigrationStatus(ctx[1].recorded, migrations[ctx[1].index].id, fails)
              THEN [ctx EXCEPT ![1].pc = "run"]
              ELSE IF ctx[1].index = Len(migrations)
              THEN [ctx EXCEPT ![1].pc = "idle"]
              ELSE [ctx EXCEPT ![1].index = @ + 1]

\* BEGIN, the SQL of the file, COMMIT; on a throw ROLLBACK, and then the fallback
\* file of 001 or process.exit(1).
MigrateRun(fails) ==
    LET migration == migrations[ctx[1].index]
        file == IF ctx[1].pc = "fallback" THEN "fallback" ELSE "file"
        execution == [run |-> ctx[1].run, id |-> migration.id, file |-> file,
                      committed |-> ~fails,
                      wasRecorded |-> migration.id \in ctx[1].recorded]
    IN  /\ ctx[1].pc \in {"run", "fallback"}
        /\ ctx' = [ctx EXCEPT
               ![1].executions = Append(@, execution),
               ![1].committed = IF fails THEN @ ELSE @ \cup {migration.id},
               ![1].pc = IF ~fails THEN "record"
                         ELSE IF migration.fallback /\ ctx[1].pc = "run" THEN "fallback"
                         ELSE "idle"]

\* if (migrationSuccess) await recordMigrationSuccess(...), and the next round.
MigrateRecord(fails) ==
    /\ ctx[1].pc = "record"
    /\ ctx' = [ctx EXCEPT
           ![1].recorded = recordMigrationSuccess(@, migrations[ctx[1].index].id, fails),
           ![1].pc = IF ctx[1].index = Len(migrations) THEN "idle" ELSE "check",
           ![1].index = IF ctx[1].index = Len(migrations) THEN @ ELSE @ + 1]

InitMigrate ==
    /\ embedCall = NoCall /\ EmptyStore /\ patterns = << >> /\ calls = << >>
    /\ ctx = <<[pc |-> "idle", run |-> 0, index |-> 1, recorded |-> {}, committed |-> {},
                executions |-> << >>]>>

NextMigrate ==
    \/ /\ MigrateStart
       /\ UNCHANGED <<embedCall, projects, sessions, decisions, now, written, last,
                      patterns, calls>>
    \/ /\ \E fails \in BOOLEAN : MigrateAllApplied(fails)
       /\ UNCHANGED <<embedCall, projects, sessions, decisions, now, written, last,
                      patterns, calls>>
    \/ /\ \E fails \in BOOLEAN : MigrateCheck(fails)
       /\ UNCHANGED <<embedCall, projects, sessions, decisions, now, written, last,
                      patterns, calls>>
    \/ /\ \E fails \in BOOLEAN : MigrateRun(fails)
       /\ UNCHANGED <<embedCall, projects, sessions, decisions, now, written, last,
                      patterns, calls>>
    \/ /\ \E fails \in BOOLEAN : MigrateRecord(fails)
       /\ UNCHANGED <<embedCall, projects, sessions, decisions, now, written, last,
                      patterns, calls>>

SpecMigrate == InitMigrate /\ [][NextMigrate]_vars

-----------------------------------------------------------------------------
(* SpecBoundary: remember_decision with confidence at and next to the ends  *)
(* of its range (in thousandths) and with either value of public.           *)

NextBoundary ==
    \/ Tick
    \/ \E confidence \in {-1, 0, 1000, 1001}, public \in BOOLEAN,
          s \in Indexes(sessions) :
           /\ sessions[s].project_id = projects[1].id
           /\ RememberDecision([BaseArgs EXCEPT !.confidence = Some(confidence),
                                                !.public = Some(public)],
                               sessions[s].project_id, sessions[s].id, AnsReject)

SpecBoundary == Init /\ [][NextBoundary]_vars

-----------------------------------------------------------------------------
(* SpecPoll: AuthManager.pollForToken, the loop of the CLI that asks the    *)
(* server for the key of a device code.  last holds the locals of the one   *)
(* call: attempts, the response of the pass just made and the value         *)
(* returned; responses and pendings count what the server has answered.     *)

maxAttempts == 60

\* What one pass can receive: fetch or response.json() rejects (throws), or
\* a status and a body.  An absent or empty apiKey or error is "".
Responses ==
    {[throws |-> TRUE, ok |-> FALSE, apiKey |-> "", error |-> ""]}
    \cup {[throws |-> FALSE, ok |-> ok, apiKey |-> apiKey, error |-> error] :
             ok \in BOOLEAN, apiKey \in {"", "tm_key"},
             error \in {"", "authorization_pending", "expired_token"}}

\* The body of the loop for one response.
pollResponse(response) ==
    LET seen == [last EXCEPT !.response = response,
                             !.responses = @ + 1,
                             !.pendings = IF ~response.throws
                                             /\ response.error = "authorization_pending"
                                          THEN @ + 1 ELSE @]
    IN  IF response.throws
        THEN [seen EXCEPT !.pc = "returned",
                          !.result = [success |-> FALSE, apiKey |-> "",
                                      error |-> "Network error"]]
        ELSE IF response.ok /\ response.apiKey # ""
        THEN [seen EXCEPT !.pc = "returned",
                          !.result = [success |-> TRUE, apiKey |-> response.apiKey,
                                      error |-> ""]]
        ELSE IF response.error = "authorization_pending"
        THEN [seen EXCEPT !.attempts = @ + 1]
        ELSE [seen EXCEPT !.pc = "returned",
                          !.result = [success |-> FALSE, apiKey |-> "",
                                      error |-> IF response.error # ""
                                                THEN response.error
                                                ELSE "Unknown error"]]

\* The loop with a test that lets one more pass through.
pollForTokenOneMore ==
    /\ last.op = "pollForToken" /\ last.pc = "loop"
    /\ \/ /\ last.attempts <= maxAttempts
          /\ \E response \in Responses : last' = pollResponse(response)
       \/ /\ ~(last.attempts <= maxAttempts)
          /\ last' = [last EXCEPT !.pc = "returned",
                                  !.result = [success |-> FALSE, apiKey |-> "",
                                              error |-> "Authentication timeout"]]
    /\ UNCHANGED <<embedCall, projects, sessions, decisions, now, written, ctx,
                   patterns, calls>>

\* One evaluation of the loop condition and, when it holds, one pass: the
\* request, its response, and the five-second wait of a pending answer.
pollForToken ==
    /\ last.op = "pollForToken" /\ last.pc = "loop"
    /\ \/ /\ last.attempts < maxAttempts
          /\ \E response \in Responses : last' = pollResponse(response)
       \/ /\ ~(last.attempts < maxAttempts)
          /\ last' = [last EXCEPT !.pc = "returned",
                                  !.result = [success |-> FALSE, apiKey |-> "",
                                              error |-> "Authentication timeout"]]
    /\ UNCHANGED <<embedCall, projects, sessions, decisions, now, written, ctx,
                   patterns, calls>>

startPoll ==
    /\ last = NoOp
    /\ last' = [op |-> "pollForToken", ok |-> TRUE, pc |-> "loop", attempts |-> 0,
                responses |-> 0, pendings |-> 0,
                response |-> [throws |-> FALSE, ok |-> FALSE, apiKey |-> "",
                              error |-> ""],
                result |-> [success |-> FALSE, apiKey |-> "", error |-> ""]]
    /\ UNCHANGED <<embedCall, projects, sessions, decisions, now, written, ctx,
                   patterns, calls>>

NextPoll ==
    \/ startPoll
    \/ pollForToken

\* Every request is answered or rejected and every timer fires: a pass that
\* has begun ends.
SpecPoll == InitEmbed /\ [][NextPoll]_vars /\ WF_vars(pollForToken)

-----------------------------------------------------------------------------
(* Properties.                                                             *)

SearchRows == {last.rows[k].row : k \in DOMAIN last.rows}

\* C1: a global-mode searchDecisionsByVector (no project id) never returns a
\* row whose public flag is false.
C1_GlobalSearchOnlyPublic ==
    (last.op = "searchDecisionsByVector" /\ last.ok /\ last.projectId = None)
        => \A row \in SearchRows : row.public = TRUE

\* A global search returned rows while a private decision with an embedding
\* was stored.
C1_Witness ==
    /\ last.op = "searchDecisionsByVector" /\ last.ok /\ last.projectId = None
    /\ Len(last.rows) >= 1
    /\ \E i \in Indexes(decisions) :
           decisions[i].public = FALSE /\ IsSome(decisions[i].vector_embedding)

\* C2: a searchDecisionsByVector scoped to project P never returns a private
\* row of another project.
C2_ScopedSearchNoForeignPrivate ==
    (last.op = "searchDecisionsByVector" /\ last.ok /\ IsSome(last.projectId))
        => \A row \in SearchRows :
               ~(row.project_id # Val(last.projectId) /\ row.public = FALSE)

\* A search scoped to project 1 returned rows while project 2 held a private
\* decision with an embedding.
C2_Witness ==
    /\ last.op = "searchDecisionsByVector" /\ last.ok /\ last.projectId = Some(1)
    /\ Len(last.rows) >= 1
    /\ \E i \in Indexes(decisions) :
           /\ decisions[i].project_id = 2 /\ decisions[i].public = FALSE
           /\ IsSome(decisions[i].vector_embedding)

\* The ways the arguments of remember_decision can be invalid, each with the
\* reason a rejection may name.
MissingField(args) ==
    \/ args.decision = None \/ args.reasoning = None \/ args.type = None
    \/ args.confidence = None \/ args.public = None
ConfidenceOutOfRange(args) ==
    IsSome(args.confidence) /\ (Val(args.confidence) < 0 \/ Val(args.confidence) > 1000)
UnknownType(args) ==
    IsSome(args.type) /\ Val(args.type) \notin {TechStack, Architecture, Pattern, ToolChoice}
Reasons(args) ==
    (IF MissingField(args) THEN {MsgMissing} ELSE {})
    \cup (IF ConfidenceOutOfRange(args) THEN {MsgConfidence} ELSE {})
    \cup (IF UnknownType(args) THEN {MsgType} ELSE {})

\* C3: a remember_decision whose arguments are invalid (a required field
\* missing, confidence below 0 or above 1, a type outside the enumeration) is
\* rejected before any write: the step inserts no decision row, leaves every
\* session's decision_count as it was, and its result is a failure that names
\* one of the reasons that apply.
C3_InvalidRejectedBeforeWrite ==
    [][(last' # last /\ last'.op = "remember_decision" /\ Reasons(last'.args) # {})
          => /\ decisions' = decisions
             /\ sessions' = sessions
             /\ ~last'.ok
             /\ last'.message \in Reasons(last'.args)]_vars

\* A call with an out-of-range confidence was rejected on a store that already
\* holds a decision.
C3_Witness ==
    /\ last.op = "remember_decision" /\ ~last.ok
    /\ ConfidenceOutOfRange(last.args) /\ last.message = MsgConfidence
    /\ Len(decisions) >= 1

\* The decision most recently passed to a successful saveDecision for the
\* project, as an index of written (and of decisions); 0 if there is none.
LatestWrite(projectId) ==
    LET ws == {k \in Indexes(written) : written[k].project_id = projectId}
    IN  IF ws = {} THEN 0 ELSE CHOOSE k \in ws : \A j \in ws : j <= k

SameTexts(row, d) ==
    /\ row.decision = d.decision
    /\ row.reasoning = d.reasoning
    /\ row.type = d.type
    /\ row.alternatives_considered = d.alternatives_considered
    /\ row.files_affected = d.files_affected

\* A step that is a call getProjectDecisions(P, 1) made after a write to P.
ListsOneAfterWrite ==
    /\ last' # last
    /\ last'.op = "getProjectDecisions" /\ last'.limit = 1
    /\ LatestWrite(last'.projectId) # 0

\* C4 as stated: saveDecision(d) followed by getProjectDecisions(d.project_id,
\* 1), no other write to the project in between, returns exactly one row whose
\* decision, reasoning, type, confidence, alternatives_considered and
\* files_affected equal those of d.
C4_RoundTripExact ==
    [][ListsOneAfterWrite
          => LET d == written[LatestWrite(last'.projectId)]
             IN  /\ Len(last'.rows) = 1
                 /\ SameTexts(last'.rows[1], d)
                 /\ last'.rows[1].confidence = d.confidence]_vars

\* d's confidence to two decimal places, halves away from zero.
TwoDecimals(c) == ((c + 5) \div 10) * 10

\* No other decision of the project carries the creation time of the latest.
LatestIsStrictlyNewest(projectId) ==
    \A i \in Indexes(decisions) :
        (decisions[i].project_id = projectId /\ i # LatestWrite(projectId))
            => decisions[i].created_at # decisions[LatestWrite(projectId)].created_at

\* C4, amended: under the same conditions, and provided no other decision of
\* the project has the same created_at as d's row, the call returns exactly
\* one row whose decision, reasoning, type, alternatives_considered and
\* files_affected equal those of d and whose confidence is d's confidence
\* rounded to two decimal places.
C4_RoundTripRounded ==
    [][(ListsOneAfterWrite /\ LatestIsStrictlyNewest(last'.projectId))
          => LET d == written[LatestWrite(last'.projectId)]
             IN  /\ Len(last'.rows) = 1
                 /\ SameTexts(last'.rows[1], d)
                 /\ last'.rows[1].confidence = TwoDecimals(d.confidence)]_vars

\* Project 1 holds two decisions written at different times, the later one
\* with confidence 0.855, and getProjectDecisions(1, 1) returned it as 0.86.
C4_Witness ==
    /\ last.op = "getProjectDecisions" /\ last.limit = 1 /\ last.projectId = 1
    /\ Len(decisions) = 2
    /\ decisions[1].project_id = 1 /\ decisions[2].project_id = 1
    /\ decisions[1].created_at < decisions[2].created_at
    /\ written[2].confidence = 855
    /\ Len(last.rows) = 1 /\ last.rows[1].id = 2 /\ last.rows[1].confidence = 860

\* C5: generateEmbedding never raises and degrades to the fallback, so a
\* remember_decision with valid arguments and a working store succeeds
\* whatever the provider answered.
C5_RememberSucceedsWhateverProvider ==
    (last.op = "remember_decision" /\ Reasons(last.args) = {}
       /\ last.args.decision # Some(TextEmpty) /\ last.args.reasoning # Some(TextEmpty))
        => last.ok

RepositoryOf(p) == ctx[p].projectInfo.repositoryId

\* C6: two registrations with the same repository_id and different path
\* hashes resolve to the same project id.
C6_SameRepositorySameProject ==
    \A p, q \in Servers :
        (/\ ctx[p].pc = "done" /\ ctx[q].pc = "done"
         /\ RepositoryOf(p) # Null /\ RepositoryOf(p) = RepositoryOf(q))
            => ctx[p].currentProjectId = ctx[q].currentProjectId

\* C7: when two callers register the same new project concurrently, neither
\* call fails, and both end with the same project id.
C7_RaceBothComplete ==
    \A p, q \in Servers :
        (p # q /\ ctx[p].projectInfo.pathHash = ctx[q].projectInfo.pathHash)
            => /\ ctx[p].pc # "failed"
               /\ (ctx[p].pc = "done" /\ ctx[q].pc = "done"
                     => ctx[p].currentProjectId = ctx[q].currentProjectId)

\* C8: every vector generateEmbedding returns, from the provider or from the
\* fallback, has exactly 1536 elements, and every element at (0-based) index
\* 20 or above is 0.
C8_EmbeddingShape ==
    embedCall.called
        => /\ Len(embedCall.result) = 1536
           /\ \A i \in 21..Len(embedCall.result) : embedCall.result[i] = 0

\* The provider failed and the fallback produced a vector with a non-zero
\* last feature.
C8_Witness ==
    /\ embedCall.called /\ ~WellFormed(embedCall.answer)
    /\ embedCall.text # TextEmpty
    /\ embedCall.result[20] # 0

\* C9: a provider payload is accepted only if it is JSON for an array of
\* exactly 20 numbers; any other answer yields the fallback embedding.
C9_AcceptedOnlyIfTwentyNumbers ==
    (embedCall.called /\ ~WellFormed(embedCall.answer))
        => embedCall.result = generateFallbackEmbedding(embedCall.text)

\* The decisions of project P that getDecisionTimeline(P, since, category)
\* is to return; a category is given when it is a non-empty string.
TimelineExpected(projectId, since, category) ==
    {i \in Indexes(decisions) :
        /\ decisions[i].project_id = projectId
        /\ (since # None => decisions[i].created_at >= since[1])
        /\ ((category # None /\ category[1] # << >>) => decisions[i].type = category[1])}

C11_ListRecent ==
    [][(last' # last /\ last'.op = "getProjectDecisions")
          => LET rows == last'.rows
                 ofP == {i \in Indexes(decisions) :
                            decisions[i].project_id = last'.projectId}
                 returned == {rows[k] : k \in DOMAIN rows}
             IN  /\ returned \subseteq {decisions[i] : i \in ofP}
                 /\ Cardinality(returned) = Len(rows)
                 /\ \A j, k \in DOMAIN rows :
                        j < k => rows[j].created_at >= rows[k].created_at
                 /\ Len(rows) = IF last'.limit <= Cardinality(ofP)
                                THEN last'.limit ELSE Cardinality(ofP)
                 /\ \A i \in ofP : decisions[i] \notin returned
                        => \A k \in DOMAIN rows :
                               rows[k].created_at >= decisions[i].created_at]_vars

\* With one decision in each project, getProjectDecisions(1, 2) returned the
\* single decision of project 1.
C11_Witness ==
    /\ last.op = "getProjectDecisions" /\ last.projectId = 1 /\ last.limit = 2
    /\ Len(decisions) = 2
    /\ \E i, j \in Indexes(decisions) :
           decisions[i].project_id = 1 /\ decisions[j].project_id = 2
    /\ Len(last.rows) = 1 /\ last.rows[1].project_id = 1

\* C12: whenever some project holds a public decision with an embedding and
\* another project holds no decision, discover_patterns with a query succeeds
\* and draws on a non-empty list of decisions, all of them public.
C12_DiscoverDrawsOnPublic ==
    [][(/\ last' # last /\ last'.op = "discover_patterns"
        /\ TruthyText(last'.args.query)
        /\ \E i \in Indexes(decisions) :
               decisions[i].public = TRUE /\ IsSome(decisions[i].vector_embedding)
        /\ \E p \in Indexes(projects) :
               \A i \in Indexes(decisions) : decisions[i].project_id # projects[p].id)
          => /\ last'.ok
             /\ last'.publicDecisions # << >>
             /\ \A k \in DOMAIN last'.publicDecisions :
                    last'.publicDecisions[k].public = TRUE]_vars

\* Two decisions were written to a project, one of them with confidence
\* 0.855, and recall_context without query and limit listed both: the text
\* holds that decision's text and "86%".
C13_Witness ==
    /\ last.op = "recall_context" /\ last.ok /\ Falsy(last.args.query)
    /\ last.args.limit = None
    /\ Len(last.rows) = 2
    /\ \E i \in Indexes(written) :
           /\ written[i].project_id = last.projectId
           /\ written[i].confidence = 855
           \* ": ", "\n"
           /\ includes(last.text, <<58, 32>> \o written[i].decision \o <<10>>)
           \* "**Confidence**: 86%\n"
           /\ includes(last.text, <<42, 42, 67, 111, 110, 102, 105, 100, 101, 110, 99, 101, 42, 42, 58, 32, 56, 54, 37, 10>>)

\* C13 as stated: after a successful remember_decision of d in project P,
\* recall_context for P without query and with limit L (10 when omitted)
\* returns a text holding d's decision text and "round(confidence*100)%",
\* provided fewer than L decisions were written to P after d.
C13_RecallHoldsDecision ==
    [][(last' # last /\ last'.op = "recall_context" /\ Falsy(last'.args.query))
          => \A i \in Indexes(decisions) :
                 (/\ decisions[i].project_id = last'.projectId
                  /\ Cardinality({j \in Indexes(decisions) :
                         j > i /\ decisions[j].project_id = last'.projectId})
                       < (IF IsSome(last'.args.limit) THEN Val(last'.args.limit) ELSE 10))
                 => /\ last'.ok
                    \* ": ", "\n"
                    /\ includes(last'.text, <<58, 32>> \o written[i].decision \o <<10>>)
                    /\ includes(last'.text,
                           \* "**Confidence**: "
                           <<42, 42, 67, 111, 110, 102, 105, 100, 101, 110, 99, 101, 42, 42, 58, 32>>
                           \* "%\n"
                           \o DecimalText((written[i].confidence + 5) \div 10) \o <<37, 10>>)]_vars

\* C13, amended: the same, provided fewer than L other decisions of P carry a
\* created_at at or after that of d's row.
C13_RecallHoldsDecisionNoTies ==
    [][(last' # last /\ last'.op = "recall_context" /\ Falsy(last'.args.query))
          => \A i \in Indexes(decisions) :
                 (/\ decisions[i].project_id = last'.projectId
                  /\ Cardinality({j \in Indexes(decisions) :
                         /\ j # i /\ decisions[j].project_id = last'.projectId
                         /\ decisions[j].created_at >= decisions[i].created_at})
                       < (IF IsSome(last'.args.limit) THEN Val(last'.args.limit) ELSE 10))
                 => /\ last'.ok
                    \* ": ", "\n"
                    /\ includes(last'.text, <<58, 32>> \o written[i].decision \o <<10>>)
                    /\ includes(last'.text,
                           \* "**Confidence**: "
                           <<42, 42, 67, 111, 110, 102, 105, 100, 101, 110, 99, 101, 42, 42, 58, 32>>
                           \* "%\n"
                           \o DecimalText((written[i].confidence + 5) \div 10) \o <<37, 10>>)]_vars

\* C14: no step of remember_decision, recall_context, discover_patterns or
\* get_timeline removes a decision row or changes one of its fields.
C14_DecisionsImmutable ==
    [][\A i \in Indexes(decisions) :
           i <= Len(decisions') /\ decisions'[i] = decisions[i]]_vars

\* Two decisions were written, the clock moved on, and discover_patterns
\* drew on the stored decisions.
C14_Witness ==
    /\ Len(decisions) = 2 /\ now > decisions[2].created_at
    /\ last.op = "discover_patterns" /\ last.ok
    /\ Len(last.publicDecisions) > 0

\* C15: a decision whose insert succeeded while the count query or the count
\* update of its call failed stays in the decisions table, and a listing of
\* its project that is not cut short by its limit returns it.
C15_InsertSurvivesCountFailure ==
    [][\A c \in DOMAIN calls :
           (calls[c].pc = "done" /\ IsSome(calls[c].saved) /\ ~Val(calls[c].result).ok)
           => /\ Val(calls[c].saved) \in Range(decisions)
              /\ (/\ last' # last /\ last'.op = "getProjectDecisions"
                  /\ last'.projectId = Val(calls[c].saved).project_id
                  /\ last'.limit >= Len(decisions))
                 => Val(calls[c].saved) \in Range(last'.rows)]_vars

\* A call's count update failed after its insert, and a later listing of the
\* project returned the row.
C15_Witness ==
    /\ last.op = "getProjectDecisions"
    /\ \E c \in DOMAIN calls :
           /\ calls[c].pc = "done" /\ IsSome(calls[c].saved) /\ IsSome(calls[c].count)
           /\ ~Val(calls[c].result).ok
           /\ Val(calls[c].saved) \in Range(last.rows)

\* C16: a call whose insert succeeded reports success, whatever happens to
\* the count query and the count update.
C16_CountFailureSwallowed ==
    \A c \in DOMAIN calls :
        (calls[c].pc = "done" /\ IsSome(calls[c].saved)) => Val(calls[c].result).ok

\* C17: once every call of a session that was started has completed, none of
\* them with a storage error, the session's decision_count is the number of
\* decisions carrying its session_id.
C17_CountMatchesRows ==
    \A s \in Indexes(sessions) :
        LET ofSession == {c \in DOMAIN calls : calls[c].sessionId = Some(sessions[s].id)}
        IN  (/\ ofSession # {}
             /\ \A c \in ofSession :
                    /\ calls[c].pc = "done"
                    /\ Val(calls[c].result).message # MsgQuery)
            => sessions[s].decision_count
                   = getSessionDecisionCount(decisions, sessions[s].id)

\* C18: no row returned by searchDecisionsByVector comes after a row whose
\* cosine similarity to the query, as calculateSimilarity computes it, is
\* strictly lower.  (dot / sqrt(norm) grows as dot * |dot| / norm does.)
C18_SearchInCosineOrder ==
    [][(last' # last /\ last'.op = "searchDecisionsByVector" /\ last'.ok)
          => LET similarity(k) ==
                     calculateSimilarity(last'.embedding,
                         Val(last'.rows[k].row.vector_embedding)).value
                 signedSquare(x) == IF x >= 0 THEN x * x ELSE 0 - x * x
                 higher(j, k) ==
                     signedSquare(similarity(j).dot) * similarity(k).norm
                         > signedSquare(similarity(k).dot) * similarity(j).norm
             IN  \A j, k \in DOMAIN last'.rows : j < k => ~higher(k, j)]_vars

\* C19: no call of one of the four tools ends with an error thrown to the
\* protocol layer; every failure is a returned text.  (Only a call naming no
\* tool may be answered MethodNotFound.)
C19_FailuresReturnedAsText ==
    last.op = "CallTool" => last.code = "MethodNotFound"

C21_PatternsApplicableToType ==
    (last.op = "discover_patterns" /\ TruthyText(last.args.project_type))
        => \A k \in Indexes(last.database) :
               last.database[k].project_type
                   \* "general"
                   \in {Val(last.args.project_type), <<103, 101, 110, 101, 114, 97, 108>>}

\* C22: every spelling of the remote of host/owner/repo (SSH shorthand or
\* http(s), with or without ".git", with or without a trailing slash, in any
\* letter case) is normalized to the lower-cased host/owner/repo.
C22_AllSpellingsSameId ==
    last.op = "normalizeGitUrl" => last.result = toLowerCase(last.remote)

\* C23: determineProjectType answers the first of frontend, backend,
\* fullstack, desktop, mobile, library, systems, data-science whose test the
\* stack passes, and "general" when it passes none.
C23_FirstMatchWins ==
    last.op = "determineProjectType" =>
        LET has(tags) == Range(last.techStack) \cap tags # {}
            order ==
                <<<<"frontend", has({"react", "vue", "angular"})>>,
                  <<"backend", has({"express", "fastapi", "django", "rails"})>>,
                  <<"fullstack", has({"nextjs", "nuxt", "gatsby"})>>,
                  <<"desktop", has({"electron", "tauri"})>>,
                  <<"mobile", has({"react-native", "flutter"})>>,
                  <<"library", "lib" \in last.existing /\ has({"javascript", "typescript"})>>,
                  <<"systems", has({"rust", "go", "c++"})>>,
                  <<"data-science", /\ has({"python"})
                                    /\ last.existing \cap {"notebooks", "data"} # {}>>>>
            passed == {k \in 1..Len(order) : order[k][2]}
        IN  last.result = IF passed = {} THEN "general"
                          ELSE order[CHOOSE k \in passed : \A j \in passed : k <= j][1]

\* A stack with a fullstack tag and express, with no frontend tag, is a
\* backend project.
C23_Witness ==
    /\ last.op = "determineProjectType"
    /\ last.techStack = <<"nextjs", "express">>
    /\ last.result = "backend"

C26_OneSessionPerProcess ==
    /\ Len(sessions) <= 1
    /\ \A i, j \in Indexes(decisions) : decisions[i].session_id = decisions[j].session_id

\* C27: in the remote server, tool calls that arrived over the same SSE connection
\* (for the one remote project) are recorded under the same session row.
C27_OneSessionPerConnection ==
    \A c, d \in DOMAIN calls :
        (calls[c].conn # None /\ calls[c].conn = calls[d].conn
             /\ calls[c].sessionId # None /\ calls[d].sessionId # None
             /\ calls[c].projectId = calls[d].projectId)
            => calls[c].sessionId = calls[d].sessionId

\* C28: the userId the remote CallTool handler holds is the user who opened the
\* connection that carried the call: never another user, never undefined.
C28_CallAttributedToItsConnection ==
    \A c \in DOMAIN calls :
        calls[c].userId # None
            => Val(calls[c].userId) = Some(ctx[1].connections[Val(calls[c].conn)].userId)

\* C29: query sends its statement to the pool only after some connect() has
\* succeeded; an operation that finds the object not connected connects first; a
\* failed connect ends the operation with the connection error and nothing sent,
\* and leaves isConnected as it was (false until a connect succeeds), so that the
\* next operation connects again.
C29_ConnectsBeforeSending ==
    /\ [](/\ ctx[1].isConnected => ctx[1].connects > 0
          /\ \A c \in DOMAIN calls :
                 /\ calls[c].sent => ctx[1].connects > 0
                 /\ (calls[c].pc \in {"send", "done"} /\ ~calls[c].sawConnected)
                        => calls[c].attempted
                 /\ (calls[c].error # None /\ ~calls[c].sent)
                        => /\ Val(calls[c].error).code = "DB_CONNECTION_FAILED"
                           /\ calls[c].attempted /\ calls[c].rows = None)
    /\ [][\A c \in DOMAIN calls :
              /\ (calls[c].pc = "connect" /\ calls'[c].error # None)
                     => ctx'[1].isConnected = ctx[1].isConnected
              /\ (calls[c].pc = "idle" /\ calls'[c].pc # "idle" /\ ~ctx[1].isConnected)
                     => calls'[c].pc = "connect"]_vars

\* C29 witness: one operation has failed with the connection error, the flag is
\* still false, and another operation is connecting again.
C29_Witness ==
    \E c, d \in DOMAIN calls :
        /\ calls[c].error # None /\ Val(calls[c].error).code = "DB_CONNECTION_FAILED"
        /\ ~ctx[1].isConnected
        /\ calls[d].pc = "connect"

\* C30: when pool.query fails, the record logged and the error raised carry the
\* context and a query text of at most the truncated length, and no parameter value
\* of the statement.
C30_FailureHidesParameters ==
    \A c \in DOMAIN calls :
        (calls[c].error # None /\ Val(calls[c].error).code = "DB_QUERY_FAILED")
            => /\ Val(calls[c].logged).context = "database_query"
               /\ Val(calls[c].logged).query = TruncatedQuery(calls[c].text)
               /\ Val(calls[c].error).query \in {<< >>, TruncatedQuery(calls[c].text)}
               /\ \A i \in DOMAIN calls[c].params :
                      calls[c].params[i] \notin Range(Val(calls[c].logged).params)

\* C31: recall_context with a query lists its detailed decisions in the order
\* searchDecisionsByVector returned them; building the summary does not reorder them.
C31_RecallKeepsSearchOrder ==
    (last.op = "recall_context" /\ last.ok /\ TruthyText(last.args.query))
        => last.rows = last.listed

\* C32: POST /mcp/message is handed to a transport exactly when its sessionId
\* belongs to a connection an authenticated user opened and that has not closed;
\* any other sessionId is answered 401 and nothing is forwarded.
C32_OnlyLiveSessionsForwarded ==
    last.op = "message"
        => IF last.sessionId \in ctx[1].authenticated \ ctx[1].closed
           THEN last.ok /\ last.status = 202
           ELSE ~last.ok /\ last.status = 401

\* C32 witness: a message for a connection that has closed was refused while
\* another connection is still open.
C32_Witness ==
    /\ last.op = "message" /\ last.sessionId \in ctx[1].closed /\ last.status = 401
    /\ ctx[1].transports # {}

\* C33: a poll of POST /device/token for an entry whose expires_at lies in the past
\* returns no API key, whether or not the entry holds one: it answers
\* expired_token and the entry is removed.
C33_ExpiredCodeYieldsNoKey ==
    (last.op = "device/token" /\ last.entry # None /\ Val(last.entry).expires_at < last.at)
        => /\ ~last.ok /\ last.apiKey = None /\ last.error = "expired_token"
           /\ (now = last.at => last.device_code \notin DOMAIN ctx[1].deviceCodes)

\* C33 witness: the poll refused an expired entry for which authorization had completed.
C33_Witness ==
    /\ last.op = "device/token" /\ last.entry # None
    /\ Val(last.entry).expires_at < last.at /\ Val(last.entry).apiKey # None
    /\ last.error = "expired_token"

C35_NoKeyForExpiredCode ==
    \A k \in DOMAIN ctx[1].apiKeys :
        ctx[1].apiKeys[k].name = "CLI Device Flow"
            => ctx[1].apiKeys[k].at <= ctx[1].apiKeys[k].expires_at

\* C36: extractUser sets a user whenever the Authorization header, the api_key
\* parameter or the token cookie of the request is valid, whatever the credentials
\* examined before it, and calls next() exactly once.
C36_AnyValidCredentialAuthenticates ==
    last.op = "extractUser"
        => /\ last.result.next = 1
           /\ (\/ /\ last.req.authorization # None
                  /\ Val(last.req.authorization).scheme \in {"Bearer", "ApiKey"}
                  /\ Val(last.req.authorization).credential # None
               \/ last.req.api_key \notin {None, Some(None)}
               \/ last.req.token \notin {None, Some(None)})
              => last.result.user # None

\* C37: migrations are executed in the order 001..004; a migration is recorded
\* only once its transaction has committed; a migration that is recorded is never
\* executed again; and after a migration has failed (for 001, after its fallback
\* has failed too) nothing further is executed in that run.
C37_MigrationsOnceInOrder ==
    LET executions == ctx[1].executions
        position(id) == CHOOSE i \in DOMAIN migrations : migrations[i].id = id
    IN  /\ ctx[1].recorded \subseteq ctx[1].committed
        /\ \A k \in DOMAIN executions : ~executions[k].wasRecorded
        /\ \A j, k \in DOMAIN executions :
               (j < k /\ executions[j].run = executions[k].run)
                   => /\ position(executions[j].id) <= position(executions[k].id)
                      /\ \/ executions[j].committed
                         \/ /\ executions[j].file = "file"
                            /\ migrations[position(executions[j].id)].fallback

\* C38: remember_decision with confidence exactly 0 or exactly 1, or with public
\* false, and its other fields valid, reports neither missing fields nor a
\* confidence out of range, and the decision is stored with these values.
C38_BoundaryValuesAreValid ==
    (/\ last.op = "remember_decision"
     /\ Val(last.args.confidence) \in {0, 1000} \/ last.args.public = Some(FALSE)
     /\ Val(last.args.confidence) >= 0 /\ Val(last.args.confidence) <= 1000)
        => /\ last.ok /\ last.message \notin {MsgMissing, MsgConfidence}
           /\ \E i \in Indexes(decisions) :
                  /\ decisions[i] = Val(last.saved)
                  /\ decisions[i].confidence = Decimal32(Val(last.args.confidence))
                  /\ Val(last.args.confidence) \in {0, 1000}
                         => decisions[i].confidence = Val(last.args.confidence)
                  /\ decisions[i].public = Val(last.args.public)

\* C38 witness: a decision with confidence 0 and public false has been stored.
C38_Witness ==
    /\ last.op = "remember_decision" /\ last.ok
    /\ last.args.confidence = Some(0) /\ last.args.public = Some(FALSE)
    /\ \E i \in Indexes(decisions) : decisions[i].confidence = 0 /\ ~decisions[i].public

C40_FallbackFeaturesInRange ==
    (embedCall.called /\ ~WellFormed(embedCall.answer))
        => /\ embedCall.result[3] \in 0..1000
           /\ \A i \in 6..20 : embedCall.result[i] \in -1000..1000

=============================================================================
